---------------------------- MODULE Spec2Model ----------------------------
(***************************************************************************)
(* Generation orchestration core of intrdrm: the concept pair sampler, the *)
(* generate/score/store cycle run against the Supabase datastore, the      *)
(* retry-with-backoff policy and the clients of the CLI wrapper, and the   *)
(* health checks.                                                          *)
(*                                                                         *)
(* Spec         : NumProcs cycles (generateSingleConnection) running       *)
(*                concurrently against one datastore.  A step is one       *)
(*                datastore round trip together with the local code that   *)
(*                follows it up to the next await.                         *)
(* SpecRetry    : one call of retryWithBackoff with an operation whose     *)
(*                outcome at each invocation is chosen by the environment. *)
(* SpecPipeline : steps 2 to 5 of one cycle in detail: the client calls of *)
(*                generateConnection and of the two critic passes, the     *)
(*                extraction and validation of their responses, and the    *)
(*                two inserts.                                             *)
(* SpecHealth   : the health checks run against a datastore of any size    *)
(*                up to MaxPool concepts.                                  *)
(* SpecMonitor  : main of health-check: the checks, their aggregation, the *)
(*                webhook and the exit code.                               *)
(* SpecDrift    : checkCriticScores, with its averages computed in doubles. *)
(* SpecBatch    : generate-batch.sh.                                       *)
(* SpecBulk     : getUnusedConceptPairs.                                   *)
(* SpecExtract  : extractJSON on texts built from segments.                *)
(* SpecPrompt   : getGeneratorPrompt on concept names of few characters.   *)
(* SpecSampler  : one sampler run on any datastore earlier cycles may leave. *)
(* SpecFetch    : the least-used fetch and draw on pools larger than the   *)
(*                fetch limit.                                             *)
(* SpecStats    : getPoolStatistics.                                       *)
(* SpecCodex    : one call of callCodexCLI and its temporary file.         *)
(***************************************************************************)
EXTENDS Integers, Sequences, FiniteSets

(* ------------------------------ bounds -------------------------------- *)

\* Largest concept pool considered; Init draws pools of 1..MaxConcepts rows.
MaxConcepts == 2

\* Number of cycles running concurrently.
NumProcs == 2

\* The maxAttempts argument the cycles pass to getUnusedConceptPair (the
\* default of health-check.ts:414 scaled down for the interleaving model).
MaxAttempts == 1

\* Largest maxRetries argument given to retryWithBackoff.
MaxRetriesArg == 3

(* ------------------------- program constants -------------------------- *)

\* .limit(50): size of the least-used prefix the sampler draws from.
FetchLimit == 50

\* while (conceptB.id === conceptA.id && attempts < 10)
MaxRedraw == 10

\* VALUES (concept_name, 1): the usage_count of the row the upsert proposes.
InsertedUsage == 1

Procs == 1..NumProcs
ConceptIds == 1..MaxConcepts

\* The Connection row an earlier cycle may have left in the datastore, rated
\* since.
SeedRow == [id |-> 0, a |-> 1, b |-> 2, status |-> "rated"]

(* --------------------------- error messages --------------------------- *)

ErrNone == "none"
ErrFetch == "Database error fetching concepts"
ErrInsufficient == "Insufficient concepts"
ErrCheck == "Database error checking duplicates"
ErrNoPair == "Failed to find unused concept pair"
ErrGenerate == "Failed to generate connection"
ErrInvalidFormat == "Invalid connection response format"
ErrStore == "Failed to store connection"
ErrStoreEvals == "Failed to store critic evaluations"
ErrIncA == "Failed to increment usage for concept A"
ErrIncB == "Failed to increment usage for concept B"

VARIABLES
  concepts,      \* ids of the rows of table concepts (id and unique name coincide)
  usage,         \* usage_count of each concept
  connections,   \* rows of table connections: [id, a, b, status]
  evaluations,   \* rows of table critic_evaluations: [conn, run]
  pc,            \* position of each cycle
  maxAttempts,   \* getUnusedConceptPair's maxAttempts in the current frame
  cA, cB,        \* conceptA / conceptB drawn in the current frame (0: not drawn)
  pair,          \* what getUnusedConceptPair returned to the cycle
  err,           \* message of the error that ended the cycle
  incLog,        \* names whose increment_concept_usage call the cycle saw succeed
  rpc, rMax, rInit, rAttempt, rLog, rDelays, rLastError, rResult,
  step,              \* position of the detailed cycle (generate .. storeEvals)
  useClaude,         \* USE_CLAUDE: the client callCLI dispatches to
  hasApiKey,         \* process.env.ANTHROPIC_API_KEY is set
  invocations,       \* number of client invocations made for each call
  stimulus,          \* what happened to the last invocation of each call
  responses,         \* the CLIResponse each call obtained
  connectionData,    \* what generateConnection returned
  scores,            \* what scoreWithCritic returned for run 1 and run 2
  storedConnection,  \* rows storeConnection inserted
  storedEvaluations, \* rows storeCriticEvaluations inserted
  received,          \* the structured data the last response yielded
  thrown,            \* message of the error caught by generateSingleConnection
  unratedRows,       \* number of connections rows with status unrated
  totalConcepts,     \* number of concepts rows
  totalConnections,  \* number of connections rows
  checks,            \* result of each health check (NotRun before it ran)
  \* ---- the health monitor (runHealthChecks, main) ----
  mpc,               \* position of main
  results,           \* level each check returned ("pending" before)
  lastGenAge,        \* age of the newest connection as checkLastGeneration saw it
  aggregate,         \* status of the HealthCheckResult ("none" before)
  webhookUrl,        \* is SLACK_WEBHOOK_URL set
  notification,      \* what became of the webhook request
  exitCode,          \* code given to process.exit (read once mpc = "exited")
  \* ---- checkCriticScores ----
  criticData,        \* the critic_evaluations table
  criticFailed,      \* did the request of the score check return an error
  criticStatus,      \* level of the score check ("none" before it ran)
  \* ---- generate-batch.sh ----
  bpc,               \* position of the script
  batchCount,        \* COUNT
  batchIndex,        \* i
  cycleLog,          \* outcome of each cycle run so far (TRUE: status 0)
  successCount,      \* SUCCESS_COUNT
  failureCount,      \* FAILURE_COUNT
  delays,            \* number of times the script slept between cycles
  summaryLevel,      \* level of the closing log line ("none" before)
  batchExit,         \* exit status of the script (read once bpc = "exited")
  \* ---- getUnusedConceptPairs ----
  bulkPc,            \* position of the call
  bulkCount,         \* count
  bulkPairs,         \* pairs
  bulkRetries,       \* retries
  bulkWarned,        \* was the 'Only found' warning logged
  \* ---- extractJSON ----
  responseText,      \* the text given to extractJSON
  extractDone,       \* has extractJSON returned
  extracted,          \* what it returned
  \* ---- getGeneratorPrompt ----
  conceptNameA,      \* conceptA
  conceptNameB,      \* conceptB
  promptDone,        \* has getGeneratorPrompt returned
  prompt,             \* what it returned
  \* ---- the fetch of getUnusedConceptPair over a large pool ----
  poolLevels,        \* number of concepts rows at each usage_count
  fetchPc,           \* position of the call
  sampledA,          \* conceptA
  sampledB,           \* conceptB
  \* ---- getPoolStatistics ----
  stats,              \* what getPoolStatistics returned (NoStats before)
  \* ---- callCodexCLI and its temporary file ----
  codexPc,           \* position of the call
  temperature,       \* temperature, in tenths
  tempFile,          \* the file at the path of tempFile: "none", "exists", "removed"
  codexResponse      \* the CLIResponse the call returned

cycleVars == <<concepts, usage, connections, evaluations, pc, maxAttempts,
               cA, cB, pair, err, incLog>>
retryVars == <<rpc, rMax, rInit, rAttempt, rLog, rDelays, rLastError, rResult>>
pipelineVars == <<step, useClaude, hasApiKey, invocations, stimulus, responses,
                  received, connectionData, scores, storedConnection,
                  storedEvaluations, thrown>>
healthVars == <<unratedRows, totalConcepts, totalConnections, checks>>
afterChecks == <<mpc, aggregate, webhookUrl, notification, exitCode>>
monitorVars == <<results, lastGenAge, afterChecks>>
driftVars == <<criticData, criticFailed, criticStatus>>
batchVars == <<bpc, batchCount, batchIndex, cycleLog, successCount, failureCount,
               delays, summaryLevel, batchExit>>
bulkVars == <<bulkPc, bulkCount, bulkPairs, bulkRetries, bulkWarned>>
extractVars == <<responseText, extractDone, extracted>>
promptVars == <<conceptNameA, conceptNameB, promptDone, prompt>>
fetchVars == <<poolLevels, fetchPc, sampledA, sampledB>>
statsVars == <<stats>>
codexVars == <<codexPc, temperature, tempFile, codexResponse>>
vars == <<cycleVars, retryVars, pipelineVars, healthVars, monitorVars, driftVars,
          batchVars, bulkVars, extractVars,
          promptVars,
          fetchVars,
          statsVars,
          codexVars>>

\* What the actions of one part of the program leave alone.
outsideCycle ==
  <<retryVars, pipelineVars, healthVars, monitorVars, driftVars, batchVars, bulkVars,
   extractVars,
   promptVars,
   fetchVars,
   statsVars,
   codexVars>>
outsideRetry ==
  <<cycleVars, pipelineVars, healthVars, monitorVars, driftVars, batchVars, bulkVars,
   extractVars,
   promptVars,
   fetchVars,
   statsVars,
   codexVars>>
outsidePipeline ==
  <<cycleVars, retryVars, healthVars, monitorVars, driftVars, batchVars, bulkVars,
   extractVars,
   promptVars,
   fetchVars,
   statsVars,
   codexVars>>
outsideHealth ==
  <<cycleVars, retryVars, pipelineVars, monitorVars, driftVars, batchVars, bulkVars,
   extractVars,
   promptVars,
   fetchVars,
   statsVars,
   codexVars>>
outsideMonitor ==
  <<cycleVars, retryVars, pipelineVars, healthVars, driftVars, batchVars, bulkVars,
   extractVars,
   promptVars,
   fetchVars,
   statsVars,
   codexVars>>
outsideDrift ==
  <<cycleVars, retryVars, pipelineVars, healthVars, monitorVars, batchVars, bulkVars,
   extractVars,
   promptVars,
   fetchVars,
   statsVars,
   codexVars>>
outsideBatch ==
  <<cycleVars, retryVars, pipelineVars, healthVars, monitorVars, driftVars, bulkVars,
   extractVars,
   promptVars,
   fetchVars,
   statsVars,
   codexVars>>
outsideBulk ==
  <<retryVars, pipelineVars, healthVars, monitorVars, driftVars, batchVars,
   extractVars,
   promptVars,
   fetchVars,
   statsVars,
   codexVars>>
outsideExtract ==
  <<cycleVars, retryVars, pipelineVars, healthVars, monitorVars, driftVars,
   batchVars, bulkVars,
   promptVars,
   fetchVars,
   statsVars,
   codexVars>>
outsidePrompt ==
  <<cycleVars, retryVars, pipelineVars, healthVars, monitorVars, driftVars, batchVars, bulkVars, extractVars,
   fetchVars,
   statsVars,
   codexVars>>
outsideFetch ==
  <<cycleVars, retryVars, pipelineVars, healthVars, monitorVars, driftVars, batchVars, bulkVars, extractVars, promptVars,
   statsVars,
   codexVars>>
outsideStats ==
  <<cycleVars, retryVars, pipelineVars, healthVars, monitorVars, driftVars, batchVars, bulkVars, extractVars, promptVars, fetchVars,
   codexVars>>
outsideCodex ==
  <<cycleVars, retryVars, pipelineVars, healthVars, monitorVars, driftVars, batchVars, bulkVars, extractVars, promptVars, fetchVars, statsVars>>

(* ----------------------------- datastore ------------------------------ *)

NoPair == [kind |-> "none", a |-> 0, b |-> 0]
NullPair == [kind |-> "null", a |-> 0, b |-> 0]
ConceptPair(a, b) == [kind |-> "pair", a |-> a, b |-> b]

\* .order('usage_count', {ascending: true}).limit(50): every result set the
\* query may return (ties are broken by the datastore).
LeastUsedConcepts(limit) ==
  LET n == IF Cardinality(concepts) < limit THEN Cardinality(concepts) ELSE limit
  IN  { S \in SUBSET concepts :
          /\ Cardinality(S) = n
          /\ \A c \in S, d \in concepts \ S : usage[c] <= usage[d] }

\* .or(and(concept_a_id.eq.A,concept_b_id.eq.B),and(concept_a_id.eq.B,concept_b_id.eq.A))
ExistingConnections(a, b) ==
  { r \in connections : (r.a = a /\ r.b = b) \/ (r.a = b /\ r.b = a) }

\* CONSTRAINT unique_concept_pair UNIQUE (concept_a_id, concept_b_id)
UniqueConceptPair(a, b) == \A r \in connections : ~(r.a = a /\ r.b = b)

\* CONSTRAINT different_concepts CHECK (concept_a_id != concept_b_id)
DifferentConcepts(a, b) == a # b

\* Mutants of OnConflictUpdate: SET usage_count = EXCLUDED.usage_count, and a
\* sign slip.
OnConflictUpdate_Excluded(old, excluded) == excluded
OnConflictUpdate_Minus(old, excluded) == old - 1

\* DO UPDATE SET usage_count = concepts.usage_count + 1
OnConflictUpdate(old, excluded) == old + 1

\* increment_concept_usage(concept_name): one upsert statement.
IncrementConceptUsage(name) ==
  IF name \in concepts
    THEN [usage EXCEPT ![name] = OnConflictUpdate(usage[name], InsertedUsage)]
    ELSE [usage EXCEPT ![name] = InsertedUsage]

(* ------------------------------ sampler ------------------------------- *)

\* Mutant of LoopOutcomes: conceptB is never redrawn.
LoopOutcomes_NoRedraw(a, b, attempts, fetched) == { [b |-> b, attempts |-> attempts] }

\* The redraw loop of getUnusedConceptPair: every (conceptB, attempts) the
\* loop can exit with, from the loop state (b, attempts), over all draws.
RECURSIVE LoopOutcomes(_, _, _, _)
LoopOutcomes(a, b, attempts, fetched) ==
  IF b = a /\ attempts < MaxRedraw
    THEN UNION { LoopOutcomes(a, b2, attempts + 1, fetched) : b2 \in fetched }
    ELSE { [b |-> b, attempts |-> attempts] }

\* Mutant of StillColliding: the check after the loop is missing.
StillColliding_Unchecked(a, b) == FALSE

\* if (conceptB.id === conceptA.id) return null
StillColliding(a, b) == b = a

\* Mutant of SamplerUsage: both counters are incremented when the pair is
\* sampled.
SamplerUsage_AtSampling(a, b) == [usage EXCEPT ![a] = @ + 1, ![b] = @ + 1]

\* Sampling leaves the usage counters alone.
SamplerUsage(a, b) == usage

Fail(p, msg) ==
  /\ pc' = [pc EXCEPT ![p] = "failed"]
  /\ err' = [err EXCEPT ![p] = msg]

\* if (maxAttempts <= 0) return null; the cycle turns null into an error.
SamplerDepleted(p) ==
  /\ pc[p] = "fetch"
  /\ maxAttempts[p] <= 0
  /\ pair' = [pair EXCEPT ![p] = NullPair]
  /\ Fail(p, ErrNoPair)
  /\ UNCHANGED <<concepts, usage, connections, evaluations, maxAttempts, cA, cB,
                 incLog, outsideCycle>>

\* The concepts query fails.
SamplerFetchError(p) ==
  /\ pc[p] = "fetch"
  /\ maxAttempts[p] > 0
  /\ Fail(p, ErrFetch)
  /\ UNCHANGED <<concepts, usage, connections, evaluations, maxAttempts, cA, cB,
                 pair, incLog, outsideCycle>>

\* if (!concepts || concepts.length < 2) throw
SamplerInsufficient(p) ==
  /\ pc[p] = "fetch"
  /\ maxAttempts[p] > 0
  /\ \E fetched \in LeastUsedConcepts(FetchLimit) : Cardinality(fetched) < 2
  /\ Fail(p, ErrInsufficient)
  /\ UNCHANGED <<concepts, usage, connections, evaluations, maxAttempts, cA, cB,
                 pair, incLog, outsideCycle>>

\* Steps 1 and 2: fetch the least-used concepts, draw conceptA and conceptB,
\* redraw conceptB while it collides.
SamplerDraw(p) ==
  /\ pc[p] = "fetch"
  /\ maxAttempts[p] > 0
  /\ \E fetched \in LeastUsedConcepts(FetchLimit) :
       /\ Cardinality(fetched) >= 2
       /\ \E a \in fetched, b0 \in fetched :
            \E out \in LoopOutcomes(a, b0, 0, fetched) :
              /\ cA' = [cA EXCEPT ![p] = a]
              /\ cB' = [cB EXCEPT ![p] = out.b]
              /\ usage' = SamplerUsage(a, out.b)
              /\ IF StillColliding(a, out.b)
                   THEN /\ pair' = [pair EXCEPT ![p] = NullPair]
                        /\ Fail(p, ErrNoPair)
                   ELSE /\ pc' = [pc EXCEPT ![p] = "check"]
                        /\ UNCHANGED <<pair, err>>
  /\ UNCHANGED <<concepts, connections, evaluations, maxAttempts, incLog, outsideCycle>>

\* Step 3 fails: the duplicate query errs (maybeSingle also errs when more
\* than one row matches).
SamplerCheckError(p) ==
  /\ pc[p] = "check"
  /\ Fail(p, ErrCheck)
  /\ UNCHANGED <<concepts, usage, connections, evaluations, maxAttempts, cA, cB,
                 pair, incLog, outsideCycle>>

\* if (existingConnection) return getUnusedConceptPair(maxAttempts - 1)
SamplerDuplicate(p) ==
  /\ pc[p] = "check"
  /\ Cardinality(ExistingConnections(cA[p], cB[p])) = 1
  /\ maxAttempts' = [maxAttempts EXCEPT ![p] = @ - 1]
  /\ cA' = [cA EXCEPT ![p] = 0]
  /\ cB' = [cB EXCEPT ![p] = 0]
  /\ pc' = [pc EXCEPT ![p] = "fetch"]
  /\ UNCHANGED <<concepts, usage, connections, evaluations, pair, err, incLog,
                 outsideCycle>>

\* return {conceptAId, conceptBId, conceptA, conceptB}: the sampler's frames
\* are popped, the cycle keeps the pair.
SamplerReturnPair(p) ==
  /\ pc[p] = "check"
  /\ ExistingConnections(cA[p], cB[p]) = {}
  /\ pair' = [pair EXCEPT ![p] = ConceptPair(cA[p], cB[p])]
  /\ maxAttempts' = [maxAttempts EXCEPT ![p] = MaxAttempts]
  /\ cA' = [cA EXCEPT ![p] = 0]
  /\ cB' = [cB EXCEPT ![p] = 0]
  /\ pc' = [pc EXCEPT ![p] = "generate"]
  /\ UNCHANGED <<concepts, usage, connections, evaluations, err, incLog, outsideCycle>>

(* ------------------------------- cycle -------------------------------- *)

\* Step 2: generateConnection returns connection data.
GenerateOk(p) ==
  /\ pc[p] = "generate"
  /\ pc' = [pc EXCEPT ![p] = "store"]
  /\ UNCHANGED <<concepts, usage, connections, evaluations, maxAttempts, cA, cB,
                 pair, err, incLog, outsideCycle>>

\* Mutant of GenerateError: the failed generation leaves a row behind.
GenerateError_StoresRow(p) ==
  /\ pc[p] = "generate"
  /\ Fail(p, ErrGenerate)
  /\ connections' =
       connections \cup
         {[id |-> p, a |-> pair[p].a, b |-> pair[p].b, status |-> "unrated"]}
  /\ UNCHANGED <<concepts, usage, evaluations, maxAttempts, cA, cB, pair, incLog,
                 outsideCycle>>

\* Step 2: generateConnection throws because no response was obtained (a
\* transport or an authentication failure of the client).
GenerateError(p) ==
  /\ pc[p] = "generate"
  /\ Fail(p, ErrGenerate)
  /\ UNCHANGED <<concepts, usage, connections, evaluations, maxAttempts, cA, cB,
                 pair, incLog, outsideCycle>>

\* Step 2: generateConnection throws because the response lacks connection
\* or explanation.
GenerateInvalid(p) ==
  /\ pc[p] = "generate"
  /\ Fail(p, ErrInvalidFormat)
  /\ UNCHANGED <<concepts, usage, connections, evaluations, maxAttempts, cA, cB,
                 pair, incLog, outsideCycle>>

\* Step 3: storeConnection inserts the row.
StoreConnectionOk(p) ==
  /\ pc[p] = "store"
  /\ UniqueConceptPair(pair[p].a, pair[p].b)
  /\ DifferentConcepts(pair[p].a, pair[p].b)
  /\ connections' =
       connections \cup
         {[id |-> p, a |-> pair[p].a, b |-> pair[p].b, status |-> "unrated"]}
  /\ pc' = [pc EXCEPT ![p] = "score"]
  /\ UNCHANGED <<concepts, usage, evaluations, maxAttempts, cA, cB, pair, err,
                 incLog, outsideCycle>>

\* Step 3: the insert is rejected (a constraint, or any datastore error).
StoreConnectionError(p) ==
  /\ pc[p] = "store"
  /\ Fail(p, ErrStore)
  /\ UNCHANGED <<concepts, usage, connections, evaluations, maxAttempts, cA, cB,
                 pair, incLog, outsideCycle>>

\* Mutant of ScoreWithCritics: a critic pass lets its error through to the
\* cycle.
ScoreWithCritics_Raises(p) ==
  /\ pc[p] = "score"
  /\ \/ pc' = [pc EXCEPT ![p] = "storeEvals"] /\ UNCHANGED err
     \/ Fail(p, ErrGenerate)
  /\ UNCHANGED <<concepts, usage, connections, evaluations, maxAttempts, cA, cB,
                 pair, incLog, outsideCycle>>

\* Step 4: both critic passes settle.
ScoreWithCritics(p) ==
  /\ pc[p] = "score"
  /\ pc' = [pc EXCEPT ![p] = "storeEvals"]
  /\ UNCHANGED <<concepts, usage, connections, evaluations, maxAttempts, cA, cB,
                 pair, err, incLog, outsideCycle>>

\* Mutant of StoreEvaluationsOk: only the row of run 1 is inserted.
StoreEvaluationsOk_FirstRow(p) ==
  /\ pc[p] = "storeEvals"
  /\ evaluations' = evaluations \cup {[conn |-> p, run |-> 1]}
  /\ pc' = [pc EXCEPT ![p] = "incA"]
  /\ UNCHANGED <<concepts, usage, connections, maxAttempts, cA, cB, pair, err,
                 incLog, outsideCycle>>

\* Step 5: storeCriticEvaluations inserts both rows in one statement.
StoreEvaluationsOk(p) ==
  /\ pc[p] = "storeEvals"
  /\ evaluations' = evaluations \cup {[conn |-> p, run |-> 1], [conn |-> p, run |-> 2]}
  /\ pc' = [pc EXCEPT ![p] = "incA"]
  /\ UNCHANGED <<concepts, usage, connections, maxAttempts, cA, cB, pair, err,
                 incLog, outsideCycle>>

StoreEvaluationsError(p) ==
  /\ pc[p] = "storeEvals"
  /\ Fail(p, ErrStoreEvals)
  /\ UNCHANGED <<concepts, usage, connections, evaluations, maxAttempts, cA, cB,
                 pair, incLog, outsideCycle>>

\* Step 6, first rpc of incrementConceptUsage.
IncrementAOk(p) ==
  /\ pc[p] = "incA"
  /\ usage' = IncrementConceptUsage(pair[p].a)
  /\ concepts' = concepts \cup {pair[p].a}
  /\ incLog' = [incLog EXCEPT ![p] = Append(@, pair[p].a)]
  /\ pc' = [pc EXCEPT ![p] = "incB"]
  /\ UNCHANGED <<connections, evaluations, maxAttempts, cA, cB, pair, err, outsideCycle>>

IncrementAError(p) ==
  /\ pc[p] = "incA"
  /\ Fail(p, ErrIncA)
  /\ UNCHANGED <<concepts, usage, connections, evaluations, maxAttempts, cA, cB,
                 pair, incLog, outsideCycle>>

\* Step 6, second rpc of incrementConceptUsage.
IncrementBOk(p) ==
  /\ pc[p] = "incB"
  /\ usage' = IncrementConceptUsage(pair[p].b)
  /\ concepts' = concepts \cup {pair[p].b}
  /\ incLog' = [incLog EXCEPT ![p] = Append(@, pair[p].b)]
  /\ pc' = [pc EXCEPT ![p] = "success"]
  /\ UNCHANGED <<connections, evaluations, maxAttempts, cA, cB, pair, err, outsideCycle>>

IncrementBError(p) ==
  /\ pc[p] = "incB"
  /\ Fail(p, ErrIncB)
  /\ UNCHANGED <<concepts, usage, connections, evaluations, maxAttempts, cA, cB,
                 pair, incLog, outsideCycle>>

(* ------------------------- retryWithBackoff --------------------------- *)

\* Error messages are sequences of characters, so that toLowerCase and
\* includes are the string operations of the code.
MsgNotFound == <<"N", "o", "t", " ", "F", "o", "u", "n", "d">>
MsgAuthentication ==
  <<"a", "u", "t", "h", "e", "n", "t", "i", "c", "a", "t", "i", "o", "n">>
MsgOAuth == <<"O", "A", "u", "t", "h">>
MsgTimeout == <<"t", "i", "m", "e", "o", "u", "t">>
MsgTransient == <<"f", "a", "i", "l">>

\* What the operation may throw.
Messages == {MsgNotFound, MsgAuthentication, MsgOAuth, MsgTimeout, MsgTransient}

\* The initialDelay arguments used in the repository (test, default, cycle).
InitialDelays == {100, 1000, 2000}

\* let lastError: Error | undefined
Undefined == <<>>

LowerChar(c) ==
  CASE c = "A" -> "a"
    [] c = "F" -> "f"
    [] c = "N" -> "n"
    [] c = "O" -> "o"
    [] OTHER -> c

\* String.prototype.toLowerCase
ToLowerCase(msg) == [i \in 1..Len(msg) |-> LowerChar(msg[i])]

\* String.prototype.includes
Includes(msg, needle) ==
  \E i \in 0..(Len(msg) - Len(needle)) : SubSeq(msg, i + 1, i + Len(needle)) = needle

\* Mutant of IsNonRetryable: the message is tested without toLowerCase.
IsNonRetryable_CaseSensitive(msg) ==
  \/ Includes(msg, <<"n", "o", "t", " ", "f", "o", "u", "n", "d">>)
  \/ Includes(msg, <<"a", "u", "t", "h">>)

\* The fail-fast test of the catch block.
IsNonRetryable(msg) ==
  LET errorMessage == ToLowerCase(msg)
  IN  \/ Includes(errorMessage, <<"n", "o", "t", " ", "f", "o", "u", "n", "d">>)
      \/ Includes(errorMessage, MsgAuthentication)
      \/ Includes(errorMessage, <<"a", "u", "t", "h">>)

RECURSIVE Pow2(_)
Pow2(n) == IF n = 0 THEN 1 ELSE 2 * Pow2(n - 1)

\* const delay = initialDelay * Math.pow(2, attempt)
BackoffDelay(initialDelay, attempt) == initialDelay * Pow2(attempt)

\* Mutant of ShouldDelay: a delay is waited after every failed attempt.
ShouldDelay_EveryAttempt(attempt, maxRetries) == attempt < maxRetries

\* if (attempt < maxRetries - 1)
ShouldDelay(attempt, maxRetries) == attempt < maxRetries - 1

\* for (...; attempt < maxRetries; ...)
LoopContinues(attempt, maxRetries) == attempt < maxRetries

Failure(msg) == [ok |-> FALSE, msg |-> msg, value |-> 0]
Success(v) == [ok |-> TRUE, msg |-> Undefined, value |-> v]

\* retryWithBackoff(fn, maxRetries, initialDelay) is called.
RetryCall ==
  /\ rpc = "idle"
  /\ \E m \in 0..MaxRetriesArg, d \in InitialDelays :
       /\ rMax' = m
       /\ rInit' = d
       /\ rpc' = IF LoopContinues(0, m) THEN "loop" ELSE "thrown"
  /\ UNCHANGED <<rAttempt, rLog, rDelays, rLastError, rResult, outsideRetry>>

\* Mutant of RetryAttemptOk: the value is kept but the loop goes on.
RetryAttemptOk_NoReturn ==
  /\ rpc = "loop"
  /\ rLog' = Append(rLog, Success(Len(rLog) + 1))
  /\ rResult' = Len(rLog) + 1
  /\ rAttempt' = rAttempt + 1
  /\ rpc' = IF LoopContinues(rAttempt + 1, rMax) THEN "loop" ELSE "returned"
  /\ UNCHANGED <<rMax, rInit, rDelays, rLastError, outsideRetry>>

\* return await fn(): the invocation resolves; its value names the invocation.
RetryAttemptOk ==
  /\ rpc = "loop"
  /\ rLog' = Append(rLog, Success(Len(rLog) + 1))
  /\ rResult' = Len(rLog) + 1
  /\ rpc' = "returned"
  /\ UNCHANGED <<rMax, rInit, rAttempt, rDelays, rLastError, outsideRetry>>

\* fn() rejects: the catch block, up to the next await or the final throw.
RetryAttemptThrows ==
  /\ rpc = "loop"
  /\ \E msg \in Messages :
       /\ rLog' = Append(rLog, Failure(msg))
       /\ rLastError' = msg
       /\ IF IsNonRetryable(msg)
            THEN /\ rpc' = "thrown"
                 /\ UNCHANGED <<rAttempt, rDelays>>
            ELSE IF ShouldDelay(rAttempt, rMax)
              THEN /\ rpc' = "sleep"
                   /\ rDelays' = Append(rDelays, BackoffDelay(rInit, rAttempt))
                   /\ UNCHANGED rAttempt
              ELSE /\ rAttempt' = rAttempt + 1
                   /\ rpc' = IF LoopContinues(rAttempt + 1, rMax) THEN "loop" ELSE "thrown"
                   /\ UNCHANGED rDelays
  /\ UNCHANGED <<rMax, rInit, rResult, outsideRetry>>

\* The setTimeout promise resolves; attempt++ and the loop test.
RetrySleep ==
  /\ rpc = "sleep"
  /\ rAttempt' = rAttempt + 1
  /\ rpc' = IF LoopContinues(rAttempt + 1, rMax) THEN "loop" ELSE "thrown"
  /\ UNCHANGED <<rMax, rInit, rLog, rDelays, rLastError, rResult, outsideRetry>>

(* -------------------- External Generation Client ---------------------- *)

\* retryWithBackoff(() => callCLI(...), 3, 2000)
ClientMaxRetries == 3

\* The calls of one cycle that go through the client.
Calls == {"generate", "run1", "run2"}

\* JSON field values.  A number is n, or n + 1/2 when half is set; a string
\* is described by its length; Missing is what destructuring gives for an
\* absent field.
Missing == [t |-> "undefined", n |-> 0, half |-> FALSE]
Str(len) == [t |-> "string", n |-> len, half |-> FALSE]
Num(k) == [t |-> "number", n |-> k, half |-> FALSE]
NumHalf(k) == [t |-> "number", n |-> k, half |-> TRUE]

\* !v
Falsy(v) ==
  \/ v.t \in {"undefined", "null"}
  \/ v.t = "string" /\ v.n = 0
  \/ v.t = "number" /\ v.n = 0 /\ ~v.half

\* v < k and v > k for a number v and an integer k
LessThan(v, k) == v.n < k
GreaterThan(v, k) == v.n > k \/ (v.n = k /\ v.half)

\* The fields the cycle reads from a parsed response.
JsonObject(c, e, n, co, u) ==
  [connection |-> c, explanation |-> e, novelty |-> n, coherence |-> co,
   usefulness |-> u]
NoFields == JsonObject(Missing, Missing, Missing, Missing, Missing)

\* What one parsing strategy finds in a text: no match, a match JSON.parse
\* rejects, or a parsed value.
Absent == [st |-> "absent", obj |-> NoFields]
Invalid == [st |-> "invalid", obj |-> NoFields]
Parsed(o) == [st |-> "value", obj |-> o]

\* A text as the three strategies see it: the ```json block, the span from
\* the first opening to the last closing brace, the whole trimmed text.
RawJson(o) == [fence |-> Absent, brace |-> Parsed(o), whole |-> Parsed(o)]
Fenced(o) == [fence |-> Parsed(o), brace |-> Parsed(o), whole |-> Invalid]
Embedded(o) == [fence |-> Absent, brace |-> Parsed(o), whole |-> Invalid]
BrokenFence == [fence |-> Invalid, brace |-> Invalid, whole |-> Invalid]
Prose == [fence |-> Absent, brace |-> Absent, whole |-> Invalid]
Shapes(o) == {RawJson(o), Fenced(o), Embedded(o), BrokenFence, Prose}

\* response.data
NoData == [kind |-> "none", obj |-> NoFields, text |-> Prose]
JsonData(o) == [kind |-> "json", obj |-> o, text |-> Prose]
TextData(out) == [kind |-> "text", obj |-> NoFields, text |-> out]

\* The parsing of stdout in the client: the fenced block, then the whole
\* output, else the output is returned as text.
ParseOutput(out) ==
  IF out.fence.st = "value" THEN JsonData(out.fence.obj)
  ELSE IF out.whole.st = "value" THEN JsonData(out.whole.obj)
  ELSE TextData(out)

\* extractJSON: code block, then any object or array, then the whole text;
\* null when no strategy parses.
NullJson == [st |-> "null", obj |-> NoFields]
ExtractJSON(text) ==
  IF text.fence.st = "value" THEN text.fence
  ELSE IF text.brace.st = "value" THEN text.brace
  ELSE IF text.whole.st = "value" THEN text.whole
  ELSE NullJson

\* The command lines (their leading words) and what child_process.exec
\* puts in front of them in the message of the error it rejects with.
CommandFailed ==
  <<"C", "o", "m", "m", "a", "n", "d", " ", "f", "a", "i", "l", "e", "d",
    ":", " ">>
CodexCommand == <<"c", "o", "d", "e", "x", " ", "e", "x", "e", "c">>
ClaudeCommand ==
  <<"c", "l", "a", "u", "d", "e", " ", "-", "-", "m", "o", "d", "e", "l">>
StderrNotFound ==
  <<"c", "o", "m", "m", "a", "n", "d", " ", "n", "o", "t", " ", "f", "o",
    "u", "n", "d">>
StderrAuthentication ==
  <<"a", "u", "t", "h", "e", "n", "t", "i", "c", "a", "t", "i", "o", "n",
    " ", "r", "e", "q", "u", "i", "r", "e", "d">>
StderrUnauthorized ==
  <<"4", "0", "1", " ", "U", "n", "a", "u", "t", "h", "o", "r", "i", "z",
    "e", "d">>
StderrRateLimit == <<"r", "a", "t", "e", " ", "l", "i", "m", "i", "t">>
MsgMaxBuffer ==
  <<"s", "t", "d", "o", "u", "t", " ", "m", "a", "x", "B", "u", "f", "f",
    "e", "r", " ", "l", "e", "n", "g", "t", "h", " ", "e", "x", "c", "e",
    "e", "d", "e", "d">>

\* What may happen to execAsync(command, ...).
Stimuli == {"ok", "missing", "auth", "unauthorized", "timeout", "exit", "maxbuffer"}
AuthStimuli == {"auth", "unauthorized"}
TransportStimuli == {"timeout", "exit", "maxbuffer"}

ExecError(command, stderr, code, signal) ==
  [message |-> CommandFailed \o command \o <<"\n">> \o stderr,
   code |-> code, signal |-> signal]

\* The error execAsync rejects with.
StimulusError(stim, command) ==
  CASE stim = "missing" -> ExecError(command, StderrNotFound, "127", "null")
    [] stim = "auth" -> ExecError(command, StderrAuthentication, "1", "null")
    [] stim = "unauthorized" -> ExecError(command, StderrUnauthorized, "1", "null")
    [] stim = "timeout" -> ExecError(command, <<>>, "null", "SIGTERM")
    [] stim = "exit" -> ExecError(command, StderrRateLimit, "1", "null")
    [] OTHER -> [message |-> MsgMaxBuffer,
                 code |-> "ERR_CHILD_PROCESS_STDIO_MAXBUFFER", signal |-> "null"]

\* response.error: one of the client's fixed texts, or error.message.
NoError == [lit |-> "", msg |-> <<>>]
Lit(text) == [lit |-> text, msg |-> <<>>]
Message(msg) == [lit |-> "", msg |-> msg]
CLIFailure(e) == [success |-> FALSE, data |-> NoData, error |-> e]
CLISuccess(d) == [success |-> TRUE, data |-> d, error |-> NoError]

ErrCodexNotFound == "Codex CLI not found"
ErrCodexAuth == "Codex authentication failed"
ErrCodexTimeout == "Codex CLI timeout"
ErrClaudeNotFound == "Claude CLI not found"
ErrClaudeAuth == "Claude authentication failed"
ErrClaudeTimeout == "Claude CLI timeout"
ErrNoApiKey == "ANTHROPIC_API_KEY not set"

\* The texts the catch blocks look for in error.message.
CommandNotFound == StderrNotFound
Codex == <<"c", "o", "d", "e", "x">>
Claude == <<"c", "l", "a", "u", "d", "e">>
Auth == <<"a", "u", "t", "h">>
ApiKey == <<"a", "p", "i", " ", "k", "e", "y">>

\* The catch block of callCodexCLI.
CodexCatch(error) ==
  IF \/ Includes(error.message, CommandNotFound)
     \/ Includes(error.message, Codex)
    THEN CLIFailure(Lit(ErrCodexNotFound))
  ELSE IF \/ Includes(error.message, MsgAuthentication)
          \/ Includes(error.message, Auth)
    THEN CLIFailure(Lit(ErrCodexAuth))
  ELSE IF error.code = "ETIMEDOUT" \/ error.signal = "SIGTERM"
    THEN CLIFailure(Lit(ErrCodexTimeout))
  ELSE CLIFailure(Message(error.message))

CallCodexCLI(stim, out) ==
  IF stim = "ok" THEN CLISuccess(ParseOutput(out))
  ELSE CodexCatch(StimulusError(stim, CodexCommand))

\* The catch block of callClaudeCLI.
ClaudeCatch(error) ==
  IF \/ Includes(error.message, CommandNotFound)
     \/ Includes(error.message, Claude)
    THEN CLIFailure(Lit(ErrClaudeNotFound))
  ELSE IF \/ Includes(error.message, MsgAuthentication)
          \/ Includes(error.message, ApiKey)
    THEN CLIFailure(Lit(ErrClaudeAuth))
  ELSE IF error.code = "ETIMEDOUT" \/ error.signal = "SIGTERM"
    THEN CLIFailure(Lit(ErrClaudeTimeout))
  ELSE CLIFailure(Message(error.message))

CallClaudeCLI(apiKey, stim, out) ==
  IF ~apiKey THEN CLIFailure(Lit(ErrNoApiKey))
  ELSE IF stim = "ok" THEN CLISuccess(ParseOutput(out))
  ELSE ClaudeCatch(StimulusError(stim, ClaudeCommand))

\* callCLI(prompt, temperature): the client selected by USE_CLAUDE.
CallCLI(claude, apiKey, stim, out) ==
  IF claude THEN CallClaudeCLI(apiKey, stim, out) ELSE CallCodexCLI(stim, out)

\* What reached the process the client started, if it started one.
Happened(claude, apiKey, stim) == IF claude /\ ~apiKey THEN "nokey" ELSE stim

(* ------------------- generate / score / store cycle ------------------- *)

\* { novelty: 5, coherence: 5, usefulness: 5 }
DefaultScore == 5
\* novelty < 1 || novelty > 10
ScoreMin == 1
ScoreMax == 10

Scores(n, c, u) == [novelty |-> n, coherence |-> c, usefulness |-> u]
DefaultScores == Scores(Num(DefaultScore), Num(DefaultScore), Num(DefaultScore))
NoScores == Scores(Missing, Missing, Missing)

\* typeof v !== 'number' || v < 1 || v > 10
InvalidScore(v) ==
  v.t # "number" \/ LessThan(v, ScoreMin) \/ GreaterThan(v, ScoreMax)

Clamp(v) ==
  IF v.t # "number" THEN Num(DefaultScore)
  ELSE IF LessThan(v, ScoreMin) THEN Num(ScoreMin)
  ELSE IF GreaterThan(v, ScoreMax) THEN Num(ScoreMax)
  ELSE v

\* Mutant of ValidateScores: each field is brought into range on its own.
ValidateScores_Clamp(data) ==
  Scores(Clamp(data.novelty), Clamp(data.coherence), Clamp(data.usefulness))

\* The score validation of scoreWithCritic.
ValidateScores(data) ==
  IF \/ InvalidScore(data.novelty)
     \/ InvalidScore(data.coherence)
     \/ InvalidScore(data.usefulness)
    THEN DefaultScores
    ELSE Scores(data.novelty, data.coherence, data.usefulness)

\* if (typeof data.text === 'string') { extracted = extractJSON(data.text);
\* if (extracted) data = extracted }
Unwrap(data) ==
  IF data.kind = "text" /\ ExtractJSON(data.text).st = "value"
    THEN ExtractJSON(data.text).obj
    ELSE data.obj

\* !response.success || !response.data
NoResponse(response) == ~response.success \/ response.data.kind = "none"

\* !connection || !explanation
InvalidConnection(data) == Falsy(data.connection) \/ Falsy(data.explanation)

\* What scoreWithCritic returns for a response.
CriticScores(response) ==
  IF NoResponse(response) THEN DefaultScores
  ELSE ValidateScores(Unwrap(response.data))

\* The responses the environment may give.
TextValues == {Missing, Str(0), Str(1)}
ScoreValues == {Str(1), Num(0), Num(1), Num(5), Num(10), NumHalf(10), Num(11)}
GenerationObjects ==
  {JsonObject(c, e, Missing, Missing, Missing) : c \in TextValues, e \in TextValues}
CriticObjects ==
  {JsonObject(Missing, Missing, n, c, u) :
     n \in ScoreValues, c \in ScoreValues, u \in ScoreValues}
\* stdout of a run that ended well; a run that failed has no use of it.
GenerationOutputs(stim) ==
  IF stim = "ok" THEN UNION {Shapes(o) : o \in GenerationObjects} ELSE {Prose}
CriticOutputs(stim) ==
  IF stim = "ok" THEN UNION {Shapes(o) : o \in CriticObjects} ELSE {Prose}

NoReceived == [call |-> "none", obj |-> NoFields]
NoResponseYet == [success |-> FALSE, error |-> NoError]
Summary(response) == [success |-> response.success, error |-> response.error]

CallOf(run) == IF run = 1 THEN "run1" ELSE "run2"

\* One run of the loop of retryWithBackoff around callCLI: the client
\* resolves at every invocation, with a CLIResponse that may report a
\* failure, so `return await fn()` ends the loop at its first attempt.
Invoke(call, stim, response) ==
  /\ LoopContinues(0, ClientMaxRetries)
  /\ invocations' = [invocations EXCEPT ![call] = @ + 1]
  /\ stimulus' = [stimulus EXCEPT ![call] = Happened(useClaude, hasApiKey, stim)]
  /\ responses' = [responses EXCEPT ![call] = Summary(response)]

\* generateConnection up to its return or throw, and the catch of the cycle.
GenerateConnection ==
  /\ step = "generate"
  /\ \E stim \in Stimuli : \E out \in GenerationOutputs(stim) :
       LET response == CallCLI(useClaude, hasApiKey, stim, out)
       IN  /\ Invoke("generate", stim, response)
           /\ IF NoResponse(response)
                THEN /\ thrown' = ErrGenerate
                     /\ step' = "failed"
                     /\ UNCHANGED <<connectionData, received>>
                ELSE /\ received' = [call |-> "generate", obj |-> Unwrap(response.data)]
                     /\ IF InvalidConnection(Unwrap(response.data))
                          THEN /\ thrown' = ErrInvalidFormat
                               /\ step' = "failed"
                               /\ UNCHANGED connectionData
                          ELSE /\ connectionData' = Unwrap(response.data)
                               /\ step' = "store"
                               /\ UNCHANGED thrown
  /\ UNCHANGED <<useClaude, hasApiKey, scores, storedConnection, storedEvaluations,
                 outsidePipeline>>

\* Mutant of StoreConnection: the cycle goes on to scoring without the insert.
StoreConnection_Deferred ==
  /\ step = "store"
  /\ step' = "score"
  /\ UNCHANGED <<useClaude, hasApiKey, invocations, stimulus, responses, received,
                 connectionData, scores, storedConnection, storedEvaluations,
                 thrown, outsidePipeline>>

\* storeConnection: the insert succeeds.
StoreConnection ==
  /\ step = "store"
  /\ storedConnection' =
       storedConnection \cup
         {[id |-> 1, connection |-> connectionData.connection,
           explanation |-> connectionData.explanation, status |-> "unrated"]}
  /\ step' = "score"
  /\ UNCHANGED <<useClaude, hasApiKey, invocations, stimulus, responses, received,
                 connectionData, scores, storedEvaluations, thrown, outsidePipeline>>

\* storeConnection: the insert fails.
StoreConnectionFails ==
  /\ step = "store"
  /\ thrown' = ErrStore
  /\ step' = "failed"
  /\ UNCHANGED <<useClaude, hasApiKey, invocations, stimulus, responses, received,
                 connectionData, scores, storedConnection, storedEvaluations,
                 outsidePipeline>>

\* Mutant of ScoreWithCritic: a pass without response throws, as
\* generateConnection does.
ScoreWithCritic_Throws(run) ==
  /\ step = "score"
  /\ scores[run] = NoScores
  /\ \E stim \in Stimuli : \E out \in CriticOutputs(stim) :
       LET response == CallCLI(useClaude, hasApiKey, stim, out)
       IN  /\ Invoke(CallOf(run), stim, response)
           /\ received' =
                IF NoResponse(response) THEN [call |-> CallOf(run), obj |-> NoFields]
                ELSE [call |-> CallOf(run), obj |-> Unwrap(response.data)]
           /\ IF NoResponse(response)
                THEN /\ thrown' = ErrGenerate
                     /\ step' = "failed"
                     /\ UNCHANGED scores
                ELSE /\ scores' = [scores EXCEPT ![run] = CriticScores(response)]
                     /\ step' = IF scores[3 - run] # NoScores THEN "storeEvals" ELSE "score"
                     /\ UNCHANGED thrown
  /\ UNCHANGED <<useClaude, hasApiKey, connectionData, storedConnection,
                 storedEvaluations, outsidePipeline>>

\* One critic pass of the Promise.all; when both have resolved the cycle
\* goes on to storeCriticEvaluations.
ScoreWithCritic(run) ==
  /\ step = "score"
  /\ scores[run] = NoScores
  /\ \E stim \in Stimuli : \E out \in CriticOutputs(stim) :
       LET response == CallCLI(useClaude, hasApiKey, stim, out)
       IN  /\ Invoke(CallOf(run), stim, response)
           /\ received' =
                IF NoResponse(response) THEN [call |-> CallOf(run), obj |-> NoFields]
                ELSE [call |-> CallOf(run), obj |-> Unwrap(response.data)]
           /\ scores' = [scores EXCEPT ![run] = CriticScores(response)]
  /\ step' = IF scores[3 - run] # NoScores THEN "storeEvals" ELSE "score"
  /\ UNCHANGED <<useClaude, hasApiKey, connectionData, storedConnection,
                 storedEvaluations, thrown, outsidePipeline>>

EvaluationRow(run, s) ==
  [conn |-> 1, run |-> run, novelty |-> s.novelty, coherence |-> s.coherence,
   usefulness |-> s.usefulness]

\* novelty INTEGER NOT NULL CHECK (novelty >= 1 AND novelty <= 10), ...
ScoreChecks(row) ==
  \A v \in {row.novelty, row.coherence, row.usefulness} :
    v.t = "number" /\ ~v.half /\ v.n >= 1 /\ v.n <= 10

\* UNIQUE (connection_id, critic_model)
UniqueCriticPerConnection(row) ==
  \A r \in storedEvaluations : ~(r.conn = row.conn /\ r.run = row.run)

\* storeCriticEvaluations: the insert of the two rows succeeds.
StoreCriticEvaluations ==
  /\ step = "storeEvals"
  /\ \A run \in {1, 2} :
       /\ ScoreChecks(EvaluationRow(run, scores[run]))
       /\ UniqueCriticPerConnection(EvaluationRow(run, scores[run]))
  /\ storedEvaluations' =
       storedEvaluations \cup {EvaluationRow(run, scores[run]) : run \in {1, 2}}
  /\ step' = "usage"
  /\ UNCHANGED <<useClaude, hasApiKey, invocations, stimulus, responses, received,
                 connectionData, scores, storedConnection, thrown, outsidePipeline>>

\* storeCriticEvaluations: the insert fails, no row is stored.
StoreCriticEvaluationsFails ==
  /\ step = "storeEvals"
  /\ thrown' = ErrStoreEvals
  /\ step' = "failed"
  /\ UNCHANGED <<useClaude, hasApiKey, invocations, stimulus, responses, received,
                 connectionData, scores, storedConnection, storedEvaluations,
                 outsidePipeline>>

(* --------------------------- health checks ---------------------------- *)

\* Largest concepts table the health checks are run against.
MaxPool == 11

\* if (unratedCount < 50) ... else if (unratedCount < 100)
PoolFailBelow == 50
PoolWarnBelow == 100

\* stats.utilizationRate > 0.8, > 0.6 (in tenths)
UtilizationFailTenths == 8
UtilizationWarnTenths == 6

PoolSizeCheck == "Pool Size"
UtilizationCheck == "Concept Utilization"
CheckNames == {PoolSizeCheck, UtilizationCheck}

\* The count of a head request: a number, or null when the request failed.
Count(n) == [null |-> FALSE, n |-> n]
NullCount == [null |-> TRUE, n |-> 0]
Truthy(count) == ~count.null /\ count.n # 0
\* count || 0
OrZero(count) == IF Truthy(count) THEN count.n ELSE 0

\* A quotient of two counts is kept as the pair of them; den is never 0.
Ratio(num, den) == [num |-> num, den |-> den]
\* rate > tenths / 10.  The quotient of two counts below 2^26 differs from
\* a multiple of 1/10 by more than the rounding of the division, so the
\* comparison of doubles agrees with the comparison of the fractions.
ExceedsTenths(rate, tenths) == 10 * rate.num > tenths * rate.den

NotRun == [status |-> "none", value |-> Ratio(0, 1)]
CheckResult(status, value) == [status |-> status, value |-> value]

\* Mutant of PoolSizeStatus: the lower threshold is inclusive.
PoolSizeStatus_Inclusive(unratedCount) ==
  IF unratedCount <= PoolFailBelow THEN "fail"
  ELSE IF unratedCount < PoolWarnBelow THEN "warn"
  ELSE "pass"

\* The branches of checkPoolSize.
PoolSizeStatus(unratedCount) ==
  IF unratedCount < PoolFailBelow THEN "fail"
  ELSE IF unratedCount < PoolWarnBelow THEN "warn"
  ELSE "pass"

\* checkPoolSize: the count request and the branches after it.
CheckPoolSize ==
  /\ checks[PoolSizeCheck] = NotRun
  /\ \E count \in {Count(unratedRows), NullCount} :
       checks' = [checks EXCEPT ![PoolSizeCheck] =
                    CheckResult(PoolSizeStatus(OrZero(count)), Ratio(OrZero(count), 1))]
  /\ UNCHANGED <<unratedRows, totalConcepts, totalConnections, outsideHealth>>

\* const maxPairs = conceptCount ? (conceptCount * (conceptCount - 1)) / 2 : 0
MaxPairs(conceptCount) ==
  IF Truthy(conceptCount) THEN (conceptCount.n * (conceptCount.n - 1)) \div 2 ELSE 0

\* const utilizationRate = totalConnections && maxPairs ? totalConnections / maxPairs : 0
UtilizationRate(connectionCount, maxPairs) ==
  IF Truthy(connectionCount) /\ maxPairs # 0
    THEN Ratio(connectionCount.n, maxPairs)
    ELSE Ratio(0, 1)

\* Mutant of UtilizationStatus: the warning threshold is inclusive.
UtilizationStatus_Inclusive(rate) ==
  IF ExceedsTenths(rate, UtilizationFailTenths) THEN "fail"
  ELSE IF 10 * rate.num >= UtilizationWarnTenths * rate.den THEN "warn"
  ELSE "pass"

\* The branches of checkConceptUtilization.
UtilizationStatus(rate) ==
  IF ExceedsTenths(rate, UtilizationFailTenths) THEN "fail"
  ELSE IF ExceedsTenths(rate, UtilizationWarnTenths) THEN "warn"
  ELSE "pass"

\* checkConceptUtilization: the count requests of getPoolStatistics and the
\* branches after them.
CheckConceptUtilization ==
  /\ checks[UtilizationCheck] = NotRun
  /\ \E conceptCount \in {Count(totalConcepts), NullCount},
        connectionCount \in {Count(totalConnections), NullCount} :
       LET rate == UtilizationRate(connectionCount, MaxPairs(conceptCount))
       IN  checks' = [checks EXCEPT ![UtilizationCheck] =
                        CheckResult(UtilizationStatus(rate), rate)]
  /\ UNCHANGED <<unratedRows, totalConcepts, totalConnections, outsideHealth>>

(* --------------------------- health monitor --------------------------- *)

\* Largest number of critic_evaluations rows the score check is run against.
MaxEvaluations == 3

\* (1000 * 60 * 60): milliseconds in an hour.
MsPerHour == 3600000

\* if (hoursAgo > 48) ... else if (hoursAgo > 24)
StaleFailHours == 48
StaleWarnHours == 24

ConnectivityCheck == "Database Connectivity"
LastGenerationCheck == "Last Generation"
CriticScoresCheck == "Critic Scores"
\* The checks runHealthChecks hands to Promise.all.
MonitorChecks == {ConnectivityCheck, PoolSizeCheck, LastGenerationCheck,
                  UtilizationCheck, CriticScoresCheck}
Levels == {"pass", "warn", "fail"}

\* A check is pending until its round trip is answered and it returns its
\* level.  No request carries a timeout, so a round trip the datastore
\* never answers leaves its check blocked.
Respond(check, level) ==
  /\ mpc = "checks"
  /\ results[check] = "pending"
  /\ results' = [results EXCEPT ![check] = level]

\* supabase-js requests are issued without a timeout or an abort signal: a
\* request that is never answered never settles.
RoundTripLost(check) ==
  /\ Respond(check, "blocked")
  /\ UNCHANGED <<lastGenAge, afterChecks, outsideMonitor>>

\* checkDatabaseConnectivity: fail when the count request returns an error
\* or throws, pass otherwise.
ConnectivityResponds ==
  /\ \E failed \in BOOLEAN :
       Respond(ConnectivityCheck, IF failed THEN "fail" ELSE "pass")
  /\ UNCHANGED <<lastGenAge, afterChecks, outsideMonitor>>

\* Unrated counts on both sides of each threshold of checkPoolSize.
UnratedCounts ==
  {NullCount} \cup
  {Count(n) : n \in {0, PoolFailBelow - 1, PoolFailBelow,
                     PoolWarnBelow - 1, PoolWarnBelow}}

\* checkPoolSize run by the monitor.
PoolSizeResponds ==
  /\ \E count \in UnratedCounts :
       Respond(PoolSizeCheck, PoolSizeStatus(OrZero(count)))
  /\ UNCHANGED <<lastGenAge, afterChecks, outsideMonitor>>

\* checkConceptUtilization run by the monitor against a concepts table of
\* MaxPool rows.
UtilizationResponds ==
  /\ \E conceptCount \in {Count(MaxPool), NullCount},
        connectionCount \in {NullCount} \cup
                            {Count(n) : n \in 0..MaxPairs(Count(MaxPool))} :
       Respond(UtilizationCheck,
               UtilizationStatus(UtilizationRate(connectionCount,
                                                 MaxPairs(conceptCount))))
  /\ UNCHANGED <<lastGenAge, afterChecks, outsideMonitor>>

\* The clock of the monitor (new Date().getTime()), three days after the
\* origin of the timestamps considered.
Now == 3 * StaleWarnHours * MsPerHour

\* generated_at of the newest connection, in milliseconds: at each
\* threshold, one millisecond before and after it, and one millisecond
\* ahead of the monitor's clock.
GeneratedAts ==
  {Now - (h * MsPerHour + d) :
     h \in {0, StaleWarnHours, StaleFailHours, StaleFailHours + StaleWarnHours},
     d \in {-1, 0, 1}}

\* const hoursAgo = (now.getTime() - lastGenerated.getTime()) / (1000 * 60 * 60)
\* The quotient is kept as a fraction: a whole number of milliseconds that
\* differs from 24 h or 48 h is at least 1/3600000 h away from it, far more
\* than the rounding of the division.
HoursAgo(now, lastGenerated) == Ratio(now - lastGenerated, MsPerHour)
ExceedsHours(hoursAgo, hours) == hoursAgo.num > hours * hoursAgo.den

\* Mutant of LastGenerationStatus: both thresholds are inclusive.
LastGenerationStatus_Inclusive(hoursAgo) ==
  IF hoursAgo.num >= StaleFailHours * hoursAgo.den THEN "fail"
  ELSE IF hoursAgo.num >= StaleWarnHours * hoursAgo.den THEN "warn"
  ELSE "pass"

\* The branches of checkLastGeneration.
LastGenerationStatus(hoursAgo) ==
  IF ExceedsHours(hoursAgo, StaleFailHours) THEN "fail"
  ELSE IF ExceedsHours(hoursAgo, StaleWarnHours) THEN "warn"
  ELSE "pass"

\* What the monitor saw of the newest connection: nothing (no row, or the
\* request failed), or its age.
NoAge == [known |-> FALSE, hours |-> Ratio(0, 1)]
Age(hoursAgo) == [known |-> TRUE, hours |-> hoursAgo]

\* checkLastGeneration: the request for the newest connection comes back
\* without data (fail), or with the row whose age decides the level.
LastGenerationResponds ==
  /\ \/ /\ Respond(LastGenerationCheck, "fail")
        /\ lastGenAge' = NoAge
     \/ \E generatedAt \in GeneratedAts :
          LET hoursAgo == HoursAgo(Now, generatedAt)
          IN  /\ Respond(LastGenerationCheck, LastGenerationStatus(hoursAgo))
              /\ lastGenAge' = Age(hoursAgo)
  /\ UNCHANGED <<afterChecks, outsideMonitor>>

\* if (avgTotal > 8) ... else if (avgTotal < 4)
DriftHighAbove == 8
DriftLowBelow == 4

\* A double between 1 and 32 is a whole number of 2^-54: it is kept as its
\* integer part w and three 18-bit limbs a, b, c of its fraction.
Limb == 2^18
Double(w, a, b, c) == [w |-> w, a |-> a, b |-> b, c |-> c]

\* Carries of the limbs into the integer part.
Normalize(w, a, b, c) ==
  LET kb == b + (c \div Limb)
      ka == a + (kb \div Limb)
  IN  Double(w + (ka \div Limb), ka % Limb, kb % Limb, c % Limb)

\* The binary exponent of a double with integer part w in 1..31.
Exponent(w) ==
  IF w >= 16 THEN 4 ELSE IF w >= 8 THEN 3 ELSE IF w >= 4 THEN 2
  ELSE IF w >= 2 THEN 1 ELSE 0

\* Round to nearest, ties to even, at the 53 bits of a double: with
\* exponent e the last kept bit weighs 2^(e - 52), that is 2^(e + 2) units
\* of the last limb.  sticky tells that the exact value has non-zero bits
\* below the last limb.
RoundNearestEven(x, sticky) ==
  LET ulp == 2^(Exponent(x.w) + 2)
      low == x.c % ulp
      half == ulp \div 2
      odd == (x.c \div ulp) % 2 = 1
      up == low > half \/ (low = half /\ (sticky \/ odd))
  IN  Normalize(x.w, x.a, x.b, x.c - low + (IF up THEN ulp ELSE 0))

\* sum / data.length: the quotient of two whole numbers, sum >= n >= 1.
DivideInts(sum, n) ==
  LET r0 == sum % n
      r1 == (r0 * Limb) % n
      r2 == (r1 * Limb) % n
      r3 == (r2 * Limb) % n
  IN  RoundNearestEven(Double(sum \div n, (r0 * Limb) \div n,
                              (r1 * Limb) \div n, (r2 * Limb) \div n),
                       r3 # 0)

\* x + y on doubles.
AddDoubles(x, y) ==
  RoundNearestEven(Normalize(x.w + y.w, x.a + y.a, x.b + y.b, x.c + y.c), FALSE)

\* x / d on a double x >= d and a small whole number d.
DivideDouble(x, d) ==
  LET r0 == x.w % d
      ka == r0 * Limb + x.a
      r1 == ka % d
      kb == r1 * Limb + x.b
      r2 == kb % d
      kc == r2 * Limb + x.c
  IN  RoundNearestEven(Double(x.w \div d, ka \div d, kb \div d, kc \div d),
                       kc % d # 0)

DoubleAbove(x, k) == x.w > k \/ (x.w = k /\ (x.a # 0 \/ x.b # 0 \/ x.c # 0))
DoubleBelow(x, k) == x.w < k

\* The critic_evaluations table as the check reads it: the number of rows
\* and the total of each score column (data.reduce over whole numbers is
\* exact).  Every total from ScoreMin * n to ScoreMax * n is the total of
\* some n rows with scores ScoreMin..ScoreMax.
Totals(n, novelty, coherence, usefulness) ==
  [n |-> n, novelty |-> novelty, coherence |-> coherence, usefulness |-> usefulness]
NoRows == Totals(0, 0, 0, 0)
TotalsOf(n) ==
  {Totals(n, sN, sC, sU) : sN \in (ScoreMin * n)..(ScoreMax * n),
                           sC \in (ScoreMin * n)..(ScoreMax * n),
                           sU \in (ScoreMin * n)..(ScoreMax * n)}

\* const avgTotal = (avgNovelty + avgCoherence + avgUsefulness) / 3
AvgTotal(data) ==
  LET avgNovelty == DivideInts(data.novelty, data.n)
      avgCoherence == DivideInts(data.coherence, data.n)
      avgUsefulness == DivideInts(data.usefulness, data.n)
  IN  DivideDouble(AddDoubles(AddDoubles(avgNovelty, avgCoherence), avgUsefulness), 3)

\* Mutant of CriticScoresStatus: an average below the lower threshold is a
\* failure.
CriticScoresStatus_FailsLow(failed, data) ==
  IF failed \/ data.n = 0 THEN "warn"
  ELSE IF DoubleAbove(AvgTotal(data), DriftHighAbove) THEN "warn"
  ELSE IF DoubleBelow(AvgTotal(data), DriftLowBelow) THEN "fail"
  ELSE "pass"

\* The branches of checkCriticScores: failed tells that the request
\* returned an error (data is null then).
CriticScoresStatus(failed, data) ==
  IF failed \/ data.n = 0 THEN "warn"
  ELSE IF DoubleAbove(AvgTotal(data), DriftHighAbove) THEN "warn"
  ELSE IF DoubleBelow(AvgTotal(data), DriftLowBelow) THEN "warn"
  ELSE "pass"

\* Critic tables the monitor is run against: no row, or one evaluation with
\* the same score in its three columns.
MonitorCriticData ==
  {NoRows} \cup {Totals(1, v, v, v) : v \in ScoreMin..ScoreMax}

\* checkCriticScores run by the monitor.
CriticScoresResponds ==
  /\ \E failed \in BOOLEAN, data \in MonitorCriticData :
       Respond(CriticScoresCheck,
               CriticScoresStatus(failed, IF failed THEN NoRows ELSE data))
  /\ UNCHANGED <<lastGenAge, afterChecks, outsideMonitor>>

\* checkCriticScores against the stored evaluations.
CheckCriticScores ==
  /\ criticStatus = "none"
  /\ \E failed \in BOOLEAN :
       /\ criticFailed' = failed
       /\ criticStatus' = CriticScoresStatus(failed, IF failed THEN NoRows ELSE criticData)
  /\ UNCHANGED <<criticData, outsideDrift>>

\* Mutant of AggregateStatus: a warning hides a failure.
AggregateStatus_WarningFirst(checkLevels) ==
  LET hasCritical == \E c \in DOMAIN checkLevels : checkLevels[c] = "fail"
      hasWarning == \E c \in DOMAIN checkLevels : checkLevels[c] = "warn"
  IN  IF hasWarning THEN "warning" ELSE IF hasCritical THEN "critical" ELSE "healthy"

\* const status = hasCritical ? 'critical' : hasWarning ? 'warning' : 'healthy'
AggregateStatus(checkLevels) ==
  LET hasCritical == \E c \in DOMAIN checkLevels : checkLevels[c] = "fail"
      hasWarning == \E c \in DOMAIN checkLevels : checkLevels[c] = "warn"
  IN  IF hasCritical THEN "critical" ELSE IF hasWarning THEN "warning" ELSE "healthy"

\* Mutant of ExitCode: the codes of warning and critical are exchanged.
ExitCode_Exchanged(status) ==
  IF status = "critical" THEN 2 ELSE IF status = "warning" THEN 1 ELSE 0

\* The process.exit calls of main.
ExitCode(status) ==
  IF status = "critical" THEN 1 ELSE IF status = "warning" THEN 2 ELSE 0

\* Mutant of ShouldPost: a healthy result is posted too.
ShouldPost_Always(url, status) == url

\* sendSlackNotification returns before the request when no webhook URL is
\* configured or the result is healthy.
ShouldPost(url, status) == url /\ status # "healthy"

\* Promise.all resolves once the five checks have returned; runHealthChecks
\* reduces their levels, main prints the result and sendSlackNotification
\* either returns at once, and main exits, or posts the payload.
RunHealthChecksReturns ==
  /\ mpc = "checks"
  /\ \A c \in MonitorChecks : results[c] \in Levels
  /\ aggregate' = AggregateStatus(results)
  /\ IF ShouldPost(webhookUrl, aggregate')
       THEN /\ mpc' = "posting"
            /\ notification' = "posted"
            /\ UNCHANGED exitCode
       ELSE /\ mpc' = "exited"
            /\ exitCode' = ExitCode(aggregate')
            /\ UNCHANGED notification
  /\ UNCHANGED <<results, lastGenAge, webhookUrl, outsideMonitor>>

\* The webhook answers (response.ok or not): the outcome is logged and main
\* exits on the status of the result.
WebhookResponds ==
  /\ mpc = "posting"
  /\ \E ok \in BOOLEAN : notification' = IF ok THEN "sent" ELSE "refused"
  /\ mpc' = "exited"
  /\ exitCode' = ExitCode(aggregate)
  /\ UNCHANGED <<results, lastGenAge, aggregate, webhookUrl, outsideMonitor>>

\* fetch rejects: the catch of sendSlackNotification logs the error.
WebhookThrows ==
  /\ mpc = "posting"
  /\ notification' = "threw"
  /\ mpc' = "exited"
  /\ exitCode' = ExitCode(aggregate)
  /\ UNCHANGED <<results, lastGenAge, aggregate, webhookUrl, outsideMonitor>>

(* --------------------------- generation batch -------------------------- *)

\* Largest COUNT argument of generate-batch.sh considered.
MaxCount == 10

\* if [ $SUCCESS_RATE -ge 90 ] ... elif [ $SUCCESS_RATE -ge 50 ]
RateOk == 90
RateWarn == 50

\* Mutant of BatchGenerate: the loop is left at the first failed cycle.
BatchGenerate_StopsOnFailure ==
  /\ bpc = "cycle"
  /\ \E ok \in BOOLEAN :
       /\ cycleLog' = Append(cycleLog, ok)
       /\ successCount' = IF ok THEN successCount + 1 ELSE successCount
       /\ failureCount' = IF ok THEN failureCount ELSE failureCount + 1
       /\ bpc' = IF ok /\ batchIndex < batchCount THEN "sleep" ELSE "summary"
  /\ UNCHANGED <<batchCount, batchIndex, delays, summaryLevel, batchExit, outsideBatch>>

\* One pass of the loop body up to the sleep: 'npm run generate' ends with
\* status 0 or not and is counted; the delay follows unless this was the
\* last cycle.
BatchGenerate ==
  /\ bpc = "cycle"
  /\ \E ok \in BOOLEAN :
       /\ cycleLog' = Append(cycleLog, ok)
       /\ successCount' = IF ok THEN successCount + 1 ELSE successCount
       /\ failureCount' = IF ok THEN failureCount ELSE failureCount + 1
  /\ bpc' = IF batchIndex < batchCount THEN "sleep" ELSE "summary"
  /\ UNCHANGED <<batchCount, batchIndex, delays, summaryLevel, batchExit, outsideBatch>>

\* sleep $DELAY, then the next value of i.
BatchSleep ==
  /\ bpc = "sleep"
  /\ delays' = delays + 1
  /\ batchIndex' = batchIndex + 1
  /\ bpc' = "cycle"
  /\ UNCHANGED <<batchCount, cycleLog, successCount, failureCount, summaryLevel,
                 batchExit, outsideBatch>>

\* SUCCESS_RATE=$((SUCCESS_COUNT * 100 / COUNT)): the division of the shell
\* truncates.
SuccessRate(successes, total) == (successes * 100) \div total

\* Mutant of SummaryLevel: a rate of exactly 50 is an error.
SummaryLevel_Exclusive(rate) ==
  IF rate >= RateOk THEN "info" ELSE IF rate > RateWarn THEN "warn" ELSE "error"

\* The branches on SUCCESS_RATE: the level of the closing log line.
SummaryLevel(rate) ==
  IF rate >= RateOk THEN "info" ELSE IF rate >= RateWarn THEN "warn" ELSE "error"

\* exit 0 in the first two branches, exit 1 in the last.
BatchExitCode(level) == IF level = "error" THEN 1 ELSE 0

\* The summary after the loop and the exit of the script.
BatchSummary ==
  /\ bpc = "summary"
  /\ summaryLevel' = SummaryLevel(SuccessRate(successCount, batchCount))
  /\ batchExit' = BatchExitCode(summaryLevel')
  /\ bpc' = "exited"
  /\ UNCHANGED <<batchCount, batchIndex, cycleLog, successCount, failureCount,
                 delays, outsideBatch>>

(* ------------------------- getUnusedConceptPairs ----------------------- *)

\* Largest count argument given to getUnusedConceptPairs.
MaxRequested == 2

\* maxAttempts: number = 50, maxRetries: number = 100
DefaultMaxAttempts == 50
DefaultMaxRetries == 100

\* The call ended with a thrown error instead of a pair or null.
Raised == [kind |-> "raised", a |-> 0, b |-> 0]

\* The pair drawn is stored already: the call recurses.
Duplicate == [kind |-> "duplicate", a |-> 0, b |-> 0]

\* if (checkError) throw; if (existingConnection) return getUnusedConceptPair(..)
\* (maybeSingle errs when both orderings of the pair are stored).
Checked(a, b) ==
  LET existing == ExistingConnections(a, b)
  IN  {Raised} \cup
      (IF existing = {} THEN {ConceptPair(a, b)}
       ELSE IF Cardinality(existing) = 1 THEN {Duplicate}
       ELSE {Raised})

\* The draws of conceptB for a given conceptA, and what follows them.
DrawnWith(a, fetched) ==
  UNION { IF StillColliding(a, out.b) THEN {NullPair} ELSE Checked(a, out.b) :
            out \in UNION {LoopOutcomes(a, b0, 0, fetched) : b0 \in fetched} }

\* One pass through the body of getUnusedConceptPair after the test of
\* maxAttempts: every way it can end against the datastore as it stands,
\* over the answers of the two queries and the random draws.
SampleOnce ==
  {Raised} \cup
  UNION { IF Cardinality(fetched) < 2 THEN {Raised}
          ELSE UNION { DrawnWith(a, fetched) : a \in fetched } :
            fetched \in LeastUsedConcepts(FetchLimit) }

\* getUnusedConceptPair(attemptsLeft) as a whole: every result the call can
\* end with.
RECURSIVE GetUnusedConceptPair(_)
GetUnusedConceptPair(attemptsLeft) ==
  IF attemptsLeft <= 0 THEN {NullPair}
  ELSE (SampleOnce \ {Duplicate}) \cup
       (IF Duplicate \in SampleOnce THEN GetUnusedConceptPair(attemptsLeft - 1) ELSE {})

\* while (pairs.length < count && retries < maxRetries)
BulkLoopContinues(found, count, retried, budget) == found < count /\ retried < budget

\* One pass of the loop: await getUnusedConceptPair(), then push the pair or
\* count a retry.  An error thrown by the call leaves getUnusedConceptPairs.
BulkIteration ==
  /\ bulkPc = "loop"
  /\ BulkLoopContinues(Len(bulkPairs), bulkCount, bulkRetries, DefaultMaxRetries)
  /\ \E result \in GetUnusedConceptPair(DefaultMaxAttempts) :
       CASE result.kind = "pair" ->
              /\ bulkPairs' = Append(bulkPairs, result)
              /\ UNCHANGED <<bulkRetries, bulkPc>>
         [] result.kind = "null" ->
              /\ bulkRetries' = bulkRetries + 1
              /\ UNCHANGED <<bulkPairs, bulkPc>>
         [] result.kind = "raised" ->
              /\ bulkPc' = "raised"
              /\ UNCHANGED <<bulkPairs, bulkRetries>>
  /\ UNCHANGED <<bulkCount, bulkWarned, cycleVars, outsideBulk>>

\* The loop is left: warn when fewer than count pairs were found, return
\* the pairs.
BulkReturn ==
  /\ bulkPc = "loop"
  /\ ~BulkLoopContinues(Len(bulkPairs), bulkCount, bulkRetries, DefaultMaxRetries)
  /\ bulkWarned' = (Len(bulkPairs) < bulkCount)
  /\ bulkPc' = "returned"
  /\ UNCHANGED <<bulkCount, bulkPairs, bulkRetries, cycleVars, outsideBulk>>

(* ------------------------- extractJSON on texts ------------------------ *)

\* Largest number of segments (prose, literals, fenced blocks) in a response
\* text.
MaxSegments == 3

\* A text is a sequence of tokens: "fence" is ```json, "ticks" is ```, " "
\* is white space, "x" is a word of prose, "1" is a number, "q" is a double
\* quote, "A" stands for the members "connection":"X","explanation":"Y" and
\* "B" for the members "novelty":8,"coherence":7,"usefulness":6.
ConnectionObject == JsonObject(Str(1), Str(1), Missing, Missing, Missing)
ScoresObject == JsonObject(Missing, Missing, Num(8), Num(7), Num(6))

Positions(text, tokens) == {k \in 1..Len(text) : text[k] \in tokens}
Least(S) == CHOOSE k \in S : \A m \in S : k <= m
Greatest(S) == CHOOSE k \in S : \A m \in S : m <= k

\* The tokens JSON.parse reads: white space is skipped except inside a
\* string, that is after an odd number of double quotes.
InString(text, k) == Cardinality(Positions(SubSeq(text, 1, k - 1), {"q"})) % 2 = 1
JsonTokens(text) ==
  LET kept == {k \in 1..Len(text) : text[k] # " " \/ InString(text, k)}
  IN  [i \in 1..Cardinality(kept) |->
         text[CHOOSE k \in kept : Cardinality({m \in kept : m <= k}) = i]]

\* The JSON grammar over tokens: a number, a string (no member list and no
\* unescaped double quote inside), an object with no member or the members
\* A or B, an array of at most one value.
RECURSIVE IsJsonValue(_)
IsJsonValue(s) ==
  \/ s = <<"1">>
  \/ /\ Len(s) >= 2
     /\ s[1] = "q" /\ s[Len(s)] = "q"
     /\ \A k \in 2..(Len(s) - 1) : s[k] \notin {"q", "A", "B"}
  \/ /\ Len(s) >= 2
     /\ s[1] = "{" /\ s[Len(s)] = "}"
     /\ SubSeq(s, 2, Len(s) - 1) \in {<<>>, <<"A">>, <<"B">>}
  \/ /\ Len(s) >= 2
     /\ s[1] = "[" /\ s[Len(s)] = "]"
     /\ (Len(s) = 2 \/ IsJsonValue(SubSeq(s, 2, Len(s) - 1)))

\* A parsed value: the value itself, written without insignificant white
\* space, next to the fields the pipeline reads from it.
ParsedValue(s) ==
  [st |-> "value",
   obj |-> IF s = <<"{", "A", "}">> THEN ConnectionObject
           ELSE IF s = <<"{", "B", "}">> THEN ScoresObject
           ELSE NoFields,
   value |-> s]

\* JSON.parse(text)
ParseJSON(text) ==
  LET s == JsonTokens(text)
  IN  IF IsJsonValue(s) THEN ParsedValue(s) ELSE Invalid

\* Mutant of CodeBlockMatch: the last block of the text is taken.
CodeBlockMatch_Last(text) ==
  LET openers == Positions(text, {"fence"})
  IN  IF openers = {} THEN Absent
      ELSE LET closers == {k \in Positions(text, {"ticks", "fence"}) : k > Greatest(openers)}
           IN  IF closers = {} THEN Absent
               ELSE ParseJSON(SubSeq(text, Greatest(openers) + 1, Least(closers) - 1))

\* text.match(/```json\s*([\s\S]*?)\s*```/) and JSON.parse of its group:
\* the match starts at the first ```json and its lazy group ends at the
\* next ``` (which may be the start of another ```json).
CodeBlockMatch(text) ==
  LET openers == Positions(text, {"fence"})
  IN  IF openers = {} THEN Absent
      ELSE LET closers == {k \in Positions(text, {"ticks", "fence"}) : k > Least(openers)}
           IN  IF closers = {} THEN Absent
               ELSE ParseJSON(SubSeq(text, Least(openers) + 1, Least(closers) - 1))

\* Where an alternative of /(\{[\s\S]*\}|\[[\s\S]*\])/ matches from
\* position k: the greedy group runs to the last closing token of its kind.
ClosersAfter(text, k) ==
  IF text[k] = "{" THEN {q \in Positions(text, {"}"}) : q > k}
  ELSE IF text[k] = "[" THEN {q \in Positions(text, {"]"}) : q > k}
  ELSE {}

\* text.match(/(\{[\s\S]*\}|\[[\s\S]*\])/) and JSON.parse of its group: the
\* leftmost position where an alternative matches.
JsonMatch(text) ==
  LET starts == {k \in 1..Len(text) : ClosersAfter(text, k) # {}}
  IN  IF starts = {} THEN Absent
      ELSE ParseJSON(SubSeq(text, Least(starts), Greatest(ClosersAfter(text, Least(starts)))))

\* What the three strategies of extractJSON find in a text.
Strategies(text) ==
  [fence |-> CodeBlockMatch(text), brace |-> JsonMatch(text), whole |-> ParseJSON(text)]

\* The parts a response text is made of.
ProseSegment == <<"x">>
ObjectSegment(members) == <<"{", members, "}">>
ArraySegment == <<"[", "1", "]">>
OpenBraceSegment == <<"{">>
StringSegment(content) == <<"q">> \o content \o <<"q">>
FencedSegment(content) == <<"fence", " ">> \o content \o <<" ", "ticks">>
Segments ==
  {ProseSegment, ObjectSegment("A"), ObjectSegment("B"), ArraySegment,
   OpenBraceSegment, FencedSegment(ObjectSegment("A")),
   FencedSegment(ObjectSegment("B")), FencedSegment(ProseSegment),
   StringSegment(<<"{", "}">>), StringSegment(<<"x", " ", "x">>)}

RECURSIVE Concat(_)
Concat(parts) == IF parts = <<>> THEN <<>> ELSE Head(parts) \o Concat(Tail(parts))

\* Every text of at most MaxSegments segments.
Texts == {Concat(parts) : parts \in UNION {[1..n -> Segments] : n \in 0..MaxSegments}}

\* extractJSON(text)
ExtractFromText ==
  /\ ~extractDone
  /\ extracted' = ExtractJSON(Strategies(responseText))
  /\ extractDone' = TRUE
  /\ UNCHANGED <<responseText, outsideExtract>>

(* -------------------------- prompt templates -------------------------- *)

\* Longest concept name drawn from NameChars.
MaxNameLen == 2

\* prompts/generator-v1.md, lines 7 and 8.  Text that holds no brace and no
\* dollar sign is written as one element; braces are elements of their
\* own, and so is the key of a placeholder.
Placeholder(key) == <<"{", "{", key, "}", "}">>
GeneratorTemplate ==
  <<"**Concept A:** ">> \o Placeholder("CONCEPT_A")
    \o <<"**Concept B:** ">> \o Placeholder("CONCEPT_B") \o <<"## Your Task">>

\* The concept names considered: every name of at most MaxNameLen
\* characters over NameChars, and a name that reads as a placeholder.
NameChars == {"a", "$", "&", "{", "}"}
ConceptNames ==
  UNION {[1..n -> NameChars] : n \in 1..MaxNameLen} \cup {Placeholder("CONCEPT_B")}

\* GetSubstitution of String.prototype.replace for a pattern without
\* capture groups: $$ is a dollar sign, $& the matched text, $` the text
\* before the match and $' the text after it; everything else is copied.
RECURSIVE GetSubstitution(_, _, _, _)
GetSubstitution(replacement, matched, before, after) ==
  IF replacement = <<>> THEN <<>>
  ELSE IF Len(replacement) >= 2 /\ replacement[1] = "$"
            /\ replacement[2] \in {"$", "&", "`", "'"}
    THEN (CASE replacement[2] = "$" -> <<"$">>
            [] replacement[2] = "&" -> matched
            [] replacement[2] = "`" -> before
            [] replacement[2] = "'" -> after)
         \o GetSubstitution(SubSeq(replacement, 3, Len(replacement)), matched,
                            before, after)
  ELSE <<replacement[1]>>
         \o GetSubstitution(Tail(replacement), matched, before, after)

\* The pattern, a literal text, matches at position k.
MatchesAt(text, k, pattern) ==
  /\ k + Len(pattern) - 1 <= Len(text)
  /\ SubSeq(text, k, k + Len(pattern) - 1) = pattern

\* template.replace(new RegExp(placeholder, 'g'), value), from position k
\* of the template on: the matches are found from left to right and do not
\* overlap; the pattern has no special character but braces, which are
\* read literally.
RECURSIVE ReplaceAll(_, _, _, _)
ReplaceAll(text, k, pattern, replacement) ==
  IF k > Len(text) THEN <<>>
  ELSE IF MatchesAt(text, k, pattern)
    THEN GetSubstitution(replacement, pattern, SubSeq(text, 1, k - 1),
                         SubSeq(text, k + Len(pattern), Len(text)))
         \o ReplaceAll(text, k + Len(pattern), pattern, replacement)
  ELSE <<text[k]>> \o ReplaceAll(text, k + 1, pattern, replacement)

\* loadPrompt: the entries of variables are applied one after the other to
\* the template read from the file.
RECURSIVE LoadPrompt(_, _)
LoadPrompt(template, variables) ==
  IF variables = <<>> THEN template
  ELSE LoadPrompt(ReplaceAll(template, 1, Placeholder(Head(variables)[1]),
                             Head(variables)[2]),
                  Tail(variables))

GetGeneratorPrompt(conceptA, conceptB) ==
  LoadPrompt(GeneratorTemplate,
             <<(<<"CONCEPT_A", conceptA>>), (<<"CONCEPT_B", conceptB>>)>>)

\* getGeneratorPrompt(conceptA, conceptB)
GetGeneratorPromptReturns ==
  /\ ~promptDone
  /\ prompt' = GetGeneratorPrompt(conceptNameA, conceptNameB)
  /\ promptDone' = TRUE
  /\ UNCHANGED <<conceptNameA, conceptNameB, outsidePrompt>>

(* ------------------ the least-used fetch on large pools ---------------- *)

\* Largest usage_count in the pool.
MaxLevel == 2

\* A pool is given by the number of concepts at each usage_count; concepts
\* of equal usage_count are interchangeable, and a concept is named by its
\* usage_count and its rank among the fetched rows of that usage_count.
UsageLevels == 0..MaxLevel
PoolCounts == {0, 1, FetchLimit - 1, FetchLimit, FetchLimit + 1}
NoConcept == [level |-> 0 - 1, rank |-> 0]
Concept(level, rank) == [level |-> level, rank |-> rank]

\* The number of concepts whose usage_count is below level.
RECURSIVE LowerCount(_, _)
LowerCount(pool, level) ==
  IF level = 0 THEN 0 ELSE pool[level - 1] + LowerCount(pool, level - 1)

Smaller(m, n) == IF m < n THEN m ELSE n

\* Mutant of FetchedAtLevel: the rows are ordered by descending usage_count.
FetchedAtLevel_Descending(pool, level, limit) ==
  LET above == LowerCount(pool, MaxLevel + 1) - LowerCount(pool, level + 1)
  IN  IF above >= limit THEN 0 ELSE Smaller(pool[level], limit - above)

\* .order('usage_count', {ascending: true}).limit(50): how many rows of a
\* usage_count the result holds.
FetchedAtLevel(pool, level, limit) ==
  LET below == LowerCount(pool, level)
  IN  IF below >= limit THEN 0 ELSE Smaller(pool[level], limit - below)

\* The rows of the result; of the rows of one usage_count two are told
\* apart.
FetchedConcepts(pool) ==
  {Concept(l, k) : l \in UsageLevels, k \in 1..2} \cap
  UNION {{Concept(l, k) : k \in 1..FetchedAtLevel(pool, l, FetchLimit)} : l \in UsageLevels}

\* The concepts query fails.
FetchError ==
  /\ fetchPc = "fetch"
  /\ fetchPc' = "raised"
  /\ UNCHANGED <<poolLevels, sampledA, sampledB, outsideFetch>>

\* Steps 1 and 2 of getUnusedConceptPair on a pool of any size: fetch,
\* throw on fewer than two rows, draw conceptA and conceptB, redraw
\* conceptB while it collides, return null when it still does.
FetchAndDraw ==
  /\ fetchPc = "fetch"
  /\ LET fetched == FetchedConcepts(poolLevels)
     IN  IF LowerCount(poolLevels, MaxLevel + 1) < 2
           THEN /\ fetchPc' = "raised"
                /\ UNCHANGED <<sampledA, sampledB>>
           ELSE \E a \in fetched, b0 \in fetched :
                  \E out \in LoopOutcomes(a, b0, 0, fetched) :
                    /\ sampledA' = a
                    /\ sampledB' = out.b
                    /\ fetchPc' = IF StillColliding(a, out.b) THEN "null" ELSE "check"
  /\ UNCHANGED <<poolLevels, outsideFetch>>

(* -------------------------- getPoolStatistics -------------------------- *)

\* needsExpansion: utilizationRate > 0.6 (in tenths)
ExpansionTenths == 6

NoStats ==
  [conceptCount |-> 0 - 1, totalConnections |-> 0, unratedConnections |-> 0,
   ratedConnections |-> 0, maxPossiblePairs |-> 0, utilizationRate |-> Ratio(0, 1),
   needsExpansion |-> FALSE]

\* The record getPoolStatistics builds from the counts its four requests
\* returned.
PoolStatistics(conceptCount, connectionCount, unratedCount, ratedCount) ==
  LET rate == UtilizationRate(connectionCount, MaxPairs(conceptCount))
  IN  [conceptCount |-> OrZero(conceptCount),
       totalConnections |-> OrZero(connectionCount),
       unratedConnections |-> OrZero(unratedCount),
       ratedConnections |-> OrZero(ratedCount),
       maxPossiblePairs |-> MaxPairs(conceptCount),
       utilizationRate |-> rate,
       needsExpansion |-> ExceedsTenths(rate, ExpansionTenths)]

\* getPoolStatistics: the four count requests, each of which gives the
\* count or null (its error is not looked at), and the record built from
\* them.  Every connections row is unrated or rated.
GetPoolStatistics ==
  /\ stats = NoStats
  /\ \E conceptCount \in {Count(totalConcepts), NullCount},
        connectionCount \in {Count(totalConnections), NullCount},
        unratedCount \in {Count(unratedRows), NullCount},
        ratedCount \in {Count(totalConnections - unratedRows), NullCount} :
       stats' = PoolStatistics(conceptCount, connectionCount, unratedCount, ratedCount)
  /\ UNCHANGED outsideStats

(* ------------------ callCodexCLI and its temporary file ---------------- *)

\* The valid range of temperature, in tenths
TemperatureMin == 0
TemperatureMax == 10
Temperatures == (TemperatureMin - 1)..(TemperatureMax + 1)

MsgTemperature ==
  <<"T", "e", "m", "p", "e", "r", "a", "t", "u", "r", "e", " ", "m", "u",
    "s", "t", " ", "b", "e", " ", "b", "e", "t", "w", "e", "e", "n", " ",
    "0", " ", "a", "n", "d", " ", "1">>
\* fs.promises.writeFile rejects at open (the message names the path
\* /tmp/codex-prompt-...) or at write.
MsgOpenFailed ==
  <<"E", "M", "F", "I", "L", "E", ":", " ", "t", "o", "o", " ", "m", "a",
    "n", "y", " ", "o", "p", "e", "n", " ", "f", "i", "l", "e", "s", ",",
    " ", "o", "p", "e", "n", " ", "'", "/", "t", "m", "p", "/", "c", "o",
    "d", "e", "x", "-", "p", "r", "o", "m", "p", "t", "'">>
MsgWriteFailed ==
  <<"E", "N", "O", "S", "P", "C", ":", " ", "n", "o", " ", "s", "p", "a",
    "c", "e", " ", "l", "e", "f", "t", " ", "o", "n", " ", "d", "e", "v",
    "i", "c", "e", ",", " ", "w", "r", "i", "t", "e">>
PlainError(message, code) == [message |-> message, code |-> code, signal |-> "undefined"]

CodexReturns(response) ==
  /\ codexResponse' = response
  /\ codexPc' = "returned"

\* if (temperature < 0 || temperature > 1) throw, caught by the catch block
\* of the call; no file is written.
CodexRejectsTemperature ==
  /\ codexPc = "validate"
  /\ temperature < TemperatureMin \/ temperature > TemperatureMax
  /\ CodexReturns(CodexCatch(PlainError(MsgTemperature, "undefined")))
  /\ UNCHANGED <<temperature, tempFile, outsideCodex>>

\* await fs.promises.writeFile(tempFile, prompt, 'utf-8') resolves.
CodexWritesFile ==
  /\ codexPc = "validate"
  /\ ~(temperature < TemperatureMin \/ temperature > TemperatureMax)
  /\ tempFile' = "exists"
  /\ codexPc' = "exec"
  /\ UNCHANGED <<temperature, codexResponse, outsideCodex>>

\* writeFile rejects: at open, before the file exists, or at write, after
\* it was created.
CodexWriteFails ==
  /\ codexPc = "validate"
  /\ ~(temperature < TemperatureMin \/ temperature > TemperatureMax)
  /\ \/ /\ tempFile' = "none"
        /\ CodexReturns(CodexCatch(PlainError(MsgOpenFailed, "EMFILE")))
     \/ /\ tempFile' = "exists"
        /\ CodexReturns(CodexCatch(PlainError(MsgWriteFailed, "ENOSPC")))
  /\ UNCHANGED <<temperature, outsideCodex>>

\* execAsync resolves: fs.promises.unlink(tempFile) removes the file, or
\* rejects, which is logged, and the file stays; then stdout is parsed.
CodexExecResolves ==
  /\ codexPc = "exec"
  /\ tempFile' \in {"removed", "exists"}
  /\ \E out \in GenerationOutputs("ok") : CodexReturns(CallCodexCLI("ok", out))
  /\ UNCHANGED <<temperature, outsideCodex>>

\* execAsync rejects (the CLI is missing, exits with an error, is killed at
\* the timeout, or overruns maxBuffer): control passes to the catch block,
\* past the unlink.
CodexExecRejects ==
  /\ codexPc = "exec"
  /\ \E stim \in Stimuli \ {"ok"} : CodexReturns(CallCodexCLI(stim, Prose))
  /\ UNCHANGED <<temperature, tempFile, outsideCodex>>

(* -------------------------- specifications --------------------------- *)

\* The parts of the program a specification does not run.
CycleIdle ==
  /\ concepts = {}
  /\ usage = [c \in ConceptIds |-> 0]
  /\ connections = {}
  /\ evaluations = {}
  /\ pc = [p \in Procs |-> "idle"]
  /\ maxAttempts = [p \in Procs |-> MaxAttempts]
  /\ cA = [p \in Procs |-> 0]
  /\ cB = [p \in Procs |-> 0]
  /\ pair = [p \in Procs |-> NoPair]
  /\ err = [p \in Procs |-> ErrNone]
  /\ incLog = [p \in Procs |-> <<>>]

RetryIdle ==
  /\ rpc = "idle"
  /\ rMax = 0
  /\ rInit = 0
  /\ rAttempt = 0
  /\ rLog = <<>>
  /\ rDelays = <<>>
  /\ rLastError = <<>>
  /\ rResult = 0

PipelineIdle ==
  /\ step = "idle"
  /\ useClaude = FALSE
  /\ hasApiKey = FALSE
  /\ invocations = [c \in Calls |-> 0]
  /\ stimulus = [c \in Calls |-> "none"]
  /\ responses = [c \in Calls |-> NoResponseYet]
  /\ received = NoReceived
  /\ connectionData = NoFields
  /\ scores = [run \in {1, 2} |-> NoScores]
  /\ storedConnection = {}
  /\ storedEvaluations = {}
  /\ thrown = ErrNone

HealthIdle ==
  /\ unratedRows = 0
  /\ totalConcepts = 0
  /\ totalConnections = 0
  /\ checks = [c \in CheckNames |-> NotRun]

MonitorIdle ==
  /\ mpc = "idle"
  /\ results = [c \in MonitorChecks |-> "pending"]
  /\ lastGenAge = NoAge
  /\ aggregate = "none"
  /\ webhookUrl = FALSE
  /\ notification = "none"
  /\ exitCode = 0

BatchIdle ==
  /\ bpc = "idle"
  /\ batchCount = 0
  /\ batchIndex = 0
  /\ cycleLog = <<>>
  /\ successCount = 0
  /\ failureCount = 0
  /\ delays = 0
  /\ summaryLevel = "none"
  /\ batchExit = 0

BulkIdle ==
  /\ bulkPc = "idle"
  /\ bulkCount = 0
  /\ bulkPairs = <<>>
  /\ bulkRetries = 0
  /\ bulkWarned = FALSE

ExtractIdle ==
  /\ responseText = <<>>
  /\ extractDone = FALSE
  /\ extracted = NullJson

CodexIdle ==
  /\ codexPc = "idle"
  /\ temperature = 7
  /\ tempFile = "none"
  /\ codexResponse = CLIFailure(NoError)

StatsIdle ==
  /\ stats = NoStats

FetchIdle ==
  /\ poolLevels = [l \in UsageLevels |-> 0]
  /\ fetchPc = "idle"
  /\ sampledA = NoConcept
  /\ sampledB = NoConcept

PromptIdle ==
  /\ conceptNameA = <<>>
  /\ conceptNameB = <<>>
  /\ promptDone = FALSE
  /\ prompt = <<>>

DriftIdle ==
  /\ criticData = NoRows
  /\ criticFailed = FALSE
  /\ criticStatus = "none"

\* The datastore holds 1..MaxConcepts concepts with usage_count 0 and either
\* no Connection or one stored by an earlier cycle.
Init ==
  /\ \E n \in 1..MaxConcepts : concepts = 1..n
  /\ usage = [c \in ConceptIds |-> 0]
  /\ connections \in {{}} \cup
       (IF Cardinality(concepts) >= 2 THEN {{SeedRow}} ELSE {})
  /\ evaluations = {[conn |-> r.id, run |-> k] : r \in connections, k \in {1, 2}}
  /\ pc = [p \in Procs |-> "fetch"]
  /\ maxAttempts = [p \in Procs |-> MaxAttempts]
  /\ cA = [p \in Procs |-> 0]
  /\ cB = [p \in Procs |-> 0]
  /\ pair = [p \in Procs |-> NoPair]
  /\ err = [p \in Procs |-> ErrNone]
  /\ incLog = [p \in Procs |-> <<>>]
  /\ RetryIdle
  /\ PipelineIdle
  /\ HealthIdle
  /\ MonitorIdle
  /\ DriftIdle
  /\ BatchIdle
  /\ BulkIdle
  /\ ExtractIdle
  /\ PromptIdle
  /\ FetchIdle
  /\ StatsIdle
  /\ CodexIdle

Next ==
  \E p \in Procs :
    \/ SamplerDepleted(p)
    \/ SamplerFetchError(p)
    \/ SamplerInsufficient(p)
    \/ SamplerDraw(p)
    \/ SamplerCheckError(p)
    \/ SamplerDuplicate(p)
    \/ SamplerReturnPair(p)
    \/ GenerateOk(p)
    \/ GenerateError(p)
    \/ GenerateInvalid(p)
    \/ StoreConnectionOk(p)
    \/ StoreConnectionError(p)
    \/ ScoreWithCritics(p)
    \/ StoreEvaluationsOk(p)
    \/ StoreEvaluationsError(p)
    \/ IncrementAOk(p)
    \/ IncrementAError(p)
    \/ IncrementBOk(p)
    \/ IncrementBError(p)

Spec == Init /\ [][Next]_vars

InitRetry ==
  /\ CycleIdle
  /\ RetryIdle
  /\ PipelineIdle
  /\ HealthIdle
  /\ MonitorIdle
  /\ DriftIdle
  /\ BatchIdle
  /\ BulkIdle
  /\ ExtractIdle
  /\ PromptIdle
  /\ FetchIdle
  /\ StatsIdle
  /\ CodexIdle

NextRetry ==
  \/ RetryCall
  \/ RetryAttemptOk
  \/ RetryAttemptThrows
  \/ RetrySleep

SpecRetry == InitRetry /\ [][NextRetry]_vars

\* One cycle that has sampled its pair, with either client configured (the
\* API key matters to the Claude client only).
InitPipeline ==
  /\ CycleIdle
  /\ RetryIdle
  /\ HealthIdle
  /\ MonitorIdle
  /\ DriftIdle
  /\ BatchIdle
  /\ BulkIdle
  /\ ExtractIdle
  /\ PromptIdle
  /\ FetchIdle
  /\ StatsIdle
  /\ CodexIdle
  /\ step = "generate"
  /\ useClaude \in BOOLEAN
  /\ hasApiKey \in (IF useClaude THEN BOOLEAN ELSE {FALSE})
  /\ invocations = [c \in Calls |-> 0]
  /\ stimulus = [c \in Calls |-> "none"]
  /\ responses = [c \in Calls |-> NoResponseYet]
  /\ received = NoReceived
  /\ connectionData = NoFields
  /\ scores = [run \in {1, 2} |-> NoScores]
  /\ storedConnection = {}
  /\ storedEvaluations = {}
  /\ thrown = ErrNone

NextPipeline ==
  \/ GenerateConnection
  \/ StoreConnection
  \/ StoreConnectionFails
  \/ \E run \in {1, 2} : ScoreWithCritic(run)
  \/ StoreCriticEvaluations
  \/ StoreCriticEvaluationsFails

SpecPipeline == InitPipeline /\ [][NextPipeline]_vars

\* The datastore a health run finds: the connections table holds at most
\* one row for each ordered pair of distinct concepts, and the unrated rows
\* are some of them.
InitHealth ==
  /\ CycleIdle
  /\ RetryIdle
  /\ PipelineIdle
  /\ MonitorIdle
  /\ DriftIdle
  /\ BatchIdle
  /\ BulkIdle
  /\ ExtractIdle
  /\ PromptIdle
  /\ FetchIdle
  /\ StatsIdle
  /\ CodexIdle
  /\ totalConcepts \in 0..MaxPool
  /\ totalConnections \in 0..(totalConcepts * (totalConcepts - 1))
  /\ unratedRows \in 0..totalConnections
  /\ checks = [c \in CheckNames |-> NotRun]

NextHealth ==
  \/ CheckPoolSize
  \/ CheckConceptUtilization

SpecHealth == InitHealth /\ [][NextHealth]_vars

\* One run of main: the five checks are in flight, with or without a
\* webhook URL in the environment.
InitMonitor ==
  /\ CycleIdle
  /\ RetryIdle
  /\ PipelineIdle
  /\ HealthIdle
  /\ DriftIdle
  /\ BatchIdle
  /\ BulkIdle
  /\ ExtractIdle
  /\ PromptIdle
  /\ FetchIdle
  /\ StatsIdle
  /\ CodexIdle
  /\ mpc = "checks"
  /\ results = [c \in MonitorChecks |-> "pending"]
  /\ lastGenAge = NoAge
  /\ aggregate = "none"
  /\ webhookUrl \in BOOLEAN
  /\ notification = "none"
  /\ exitCode = 0

NextMonitor ==
  \/ ConnectivityResponds
  \/ PoolSizeResponds
  \/ LastGenerationResponds
  \/ UtilizationResponds
  \/ CriticScoresResponds
  \/ \E c \in MonitorChecks : RoundTripLost(c)
  \/ RunHealthChecksReturns
  \/ WebhookResponds
  \/ WebhookThrows

SpecMonitor == InitMonitor /\ [][NextMonitor]_vars

\* The score check against any table of up to MaxEvaluations evaluations
\* whose scores satisfy the CHECK constraints of the schema.
InitDrift ==
  /\ CycleIdle
  /\ RetryIdle
  /\ PipelineIdle
  /\ HealthIdle
  /\ MonitorIdle
  /\ BatchIdle
  /\ BulkIdle
  /\ ExtractIdle
  /\ PromptIdle
  /\ FetchIdle
  /\ StatsIdle
  /\ CodexIdle
  /\ criticData \in {NoRows} \cup UNION {TotalsOf(n) : n \in 1..MaxEvaluations}
  /\ criticFailed = FALSE
  /\ criticStatus = "none"

NextDrift == CheckCriticScores

SpecDrift == InitDrift /\ [][NextDrift]_vars

\* The script started with COUNT in 1..MaxCount, before its first cycle.
InitBatch ==
  /\ CycleIdle
  /\ RetryIdle
  /\ PipelineIdle
  /\ HealthIdle
  /\ MonitorIdle
  /\ DriftIdle
  /\ BulkIdle
  /\ ExtractIdle
  /\ PromptIdle
  /\ FetchIdle
  /\ StatsIdle
  /\ CodexIdle
  /\ bpc = "cycle"
  /\ batchCount \in 1..MaxCount
  /\ batchIndex = 1
  /\ cycleLog = <<>>
  /\ successCount = 0
  /\ failureCount = 0
  /\ delays = 0
  /\ summaryLevel = "none"
  /\ batchExit = 0

NextBatch ==
  \/ BatchGenerate
  \/ BatchSleep
  \/ BatchSummary

SpecBatch == InitBatch /\ [][NextBatch]_vars

\* getUnusedConceptPairs(count) called against a datastore of 1..MaxConcepts
\* concepts and either no Connection or one stored earlier.
InitBulk ==
  /\ \E n \in 1..MaxConcepts : concepts = 1..n
  /\ usage = [c \in ConceptIds |-> 0]
  /\ connections \in {{}} \cup
       (IF Cardinality(concepts) >= 2 THEN {{SeedRow}} ELSE {})
  /\ evaluations = {[conn |-> r.id, run |-> k] : r \in connections, k \in {1, 2}}
  /\ pc = [p \in Procs |-> "idle"]
  /\ maxAttempts = [p \in Procs |-> MaxAttempts]
  /\ cA = [p \in Procs |-> 0]
  /\ cB = [p \in Procs |-> 0]
  /\ pair = [p \in Procs |-> NoPair]
  /\ err = [p \in Procs |-> ErrNone]
  /\ incLog = [p \in Procs |-> <<>>]
  /\ RetryIdle
  /\ PipelineIdle
  /\ HealthIdle
  /\ MonitorIdle
  /\ DriftIdle
  /\ BatchIdle
  /\ bulkPc = "loop"
  /\ bulkCount \in 0..MaxRequested
  /\ bulkPairs = <<>>
  /\ bulkRetries = 0
  /\ bulkWarned = FALSE
  /\ ExtractIdle
  /\ PromptIdle
  /\ FetchIdle
  /\ StatsIdle
  /\ CodexIdle

NextBulk ==
  \/ BulkIteration
  \/ BulkReturn

SpecBulk == InitBulk /\ [][NextBulk]_vars

\* extractJSON called on any text of at most MaxSegments segments.
InitExtract ==
  /\ CycleIdle
  /\ RetryIdle
  /\ PipelineIdle
  /\ HealthIdle
  /\ MonitorIdle
  /\ DriftIdle
  /\ BatchIdle
  /\ BulkIdle
  /\ PromptIdle
  /\ FetchIdle
  /\ StatsIdle
  /\ CodexIdle
  /\ responseText \in Texts
  /\ extractDone = FALSE
  /\ extracted = NullJson

NextExtract == ExtractFromText

SpecExtract == InitExtract /\ [][NextExtract]_vars

\* getGeneratorPrompt called with any two concept names.
InitPrompt ==
  /\ CycleIdle
  /\ RetryIdle
  /\ PipelineIdle
  /\ HealthIdle
  /\ MonitorIdle
  /\ DriftIdle
  /\ BatchIdle
  /\ BulkIdle
  /\ ExtractIdle
  /\ FetchIdle
  /\ StatsIdle
  /\ CodexIdle
  /\ conceptNameA \in ConceptNames
  /\ conceptNameB \in ConceptNames
  /\ promptDone = FALSE
  /\ prompt = <<>>

NextPrompt == GetGeneratorPromptReturns

SpecPrompt == InitPrompt /\ [][NextPrompt]_vars

\* A Connection row stored by an earlier cycle for the ordered pair (a, b).
EarlierRow(a, b) ==
  [id |-> 0 - (a * (MaxConcepts + 1) + b), a |-> a, b |-> b, status |-> "rated"]

\* One call of getUnusedConceptPair against any datastore earlier cycles
\* may have left: any set of Connection rows the constraints of the table
\* admit (both orderings of a pair may be stored), each concept used at
\* most as often as rows refer to it.
InitSampler ==
  /\ \E n \in 1..MaxConcepts : concepts = 1..n
  /\ connections \in
       SUBSET {EarlierRow(ab[1], ab[2]) :
                 ab \in {cd \in concepts \X concepts : DifferentConcepts(cd[1], cd[2])}}
  /\ usage \in [ConceptIds -> 0..MaxConcepts]
  /\ \A c \in ConceptIds :
       usage[c] <= Cardinality({r \in connections : r.a = c \/ r.b = c})
  /\ evaluations = {[conn |-> r.id, run |-> k] : r \in connections, k \in {1, 2}}
  /\ pc = [p \in Procs |-> IF p = 1 THEN "fetch" ELSE "idle"]
  /\ maxAttempts = [p \in Procs |-> MaxAttempts]
  /\ cA = [p \in Procs |-> 0]
  /\ cB = [p \in Procs |-> 0]
  /\ pair = [p \in Procs |-> NoPair]
  /\ err = [p \in Procs |-> ErrNone]
  /\ incLog = [p \in Procs |-> <<>>]
  /\ RetryIdle
  /\ PipelineIdle
  /\ HealthIdle
  /\ MonitorIdle
  /\ DriftIdle
  /\ BatchIdle
  /\ BulkIdle
  /\ ExtractIdle
  /\ PromptIdle
  /\ FetchIdle
  /\ StatsIdle
  /\ CodexIdle

NextSampler ==
  \/ SamplerDepleted(1)
  \/ SamplerFetchError(1)
  \/ SamplerInsufficient(1)
  \/ SamplerDraw(1)
  \/ SamplerCheckError(1)
  \/ SamplerDuplicate(1)
  \/ SamplerReturnPair(1)

SpecSampler == InitSampler /\ [][NextSampler]_vars

\* The fetch and the draws of getUnusedConceptPair on pools of up to
\* (MaxLevel + 1) * (FetchLimit + 1) concepts.
InitFetch ==
  /\ CycleIdle
  /\ RetryIdle
  /\ PipelineIdle
  /\ HealthIdle
  /\ MonitorIdle
  /\ DriftIdle
  /\ BatchIdle
  /\ BulkIdle
  /\ ExtractIdle
  /\ PromptIdle
  /\ StatsIdle
  /\ CodexIdle
  /\ poolLevels \in [UsageLevels -> PoolCounts]
  /\ fetchPc = "fetch"
  /\ sampledA = NoConcept
  /\ sampledB = NoConcept

NextFetch ==
  \/ FetchError
  \/ FetchAndDraw

SpecFetch == InitFetch /\ [][NextFetch]_vars

\* getPoolStatistics run against a datastore of any size up to MaxPool
\* concepts; the unique constraint of connections admits one row for each
\* ordered pair of different concepts.
InitStats ==
  /\ CycleIdle
  /\ RetryIdle
  /\ PipelineIdle
  /\ MonitorIdle
  /\ DriftIdle
  /\ BatchIdle
  /\ BulkIdle
  /\ ExtractIdle
  /\ PromptIdle
  /\ FetchIdle
  /\ CodexIdle
  /\ totalConcepts \in 0..MaxPool
  /\ totalConnections \in 0..(totalConcepts * (totalConcepts - 1))
  /\ unratedRows \in 0..totalConnections
  /\ checks = [c \in CheckNames |-> NotRun]
  /\ stats = NoStats

NextStats == GetPoolStatistics

SpecStats == InitStats /\ [][NextStats]_vars

\* One call of callCodexCLI with any temperature from -0.1 to 1.1.
InitCodex ==
  /\ CycleIdle
  /\ RetryIdle
  /\ PipelineIdle
  /\ HealthIdle
  /\ MonitorIdle
  /\ DriftIdle
  /\ BatchIdle
  /\ BulkIdle
  /\ ExtractIdle
  /\ PromptIdle
  /\ FetchIdle
  /\ StatsIdle
  /\ codexPc = "validate"
  /\ temperature \in Temperatures
  /\ tempFile = "none"
  /\ codexResponse = CLIFailure(NoError)

NextCodex ==
  \/ CodexRejectsTemperature
  \/ CodexWritesFile
  \/ CodexWriteFails
  \/ CodexExecResolves
  \/ CodexExecRejects

SpecCodex == InitCodex /\ [][NextCodex]_vars

(* ============================== claims ================================ *)

SamplerPcs == {"fetch", "check"}

\* The sampler call of cycle p has ended (returned or thrown).
SamplerEnded(p) == pc[p] \notin SamplerPcs

\* The sampler call of cycle p ended because a datastore query failed.
DatastoreFailed(p) == pc[p] = "failed" /\ err[p] \in {ErrFetch, ErrCheck}

\* The sampler call of cycle p ended with its retry budget used up.
Depleted(p) == pc[p] = "failed" /\ pair[p] = NullPair /\ maxAttempts[p] <= 0

\* The sampler call of cycle p ended because conceptB kept colliding.
Collided(p) ==
  pc[p] = "failed" /\ pair[p] = NullPair /\ maxAttempts[p] > 0 /\ cA[p] = cB[p]

\* C1: the datastore never holds two Connection rows for the same unordered
\* concept pair, be it (A,B) twice or (A,B) and (B,A).
C1_UniqueUnorderedPair ==
  \A r1, r2 \in connections : r1.id # r2.id => {r1.a, r1.b} # {r2.a, r2.b}

\* C2: every pair returned by getUnusedConceptPair has two different concepts.
C2_SampledPairDistinct ==
  \A p \in Procs : pair[p].kind = "pair" => pair[p].a # pair[p].b

\* A cycle holds a pair while another one ended on colliding draws.
C2_Witness ==
  \E p, q \in Procs : pair[p].kind = "pair" /\ pair[p].a \in concepts /\ Collided(q)

\* C3: a sampler call that uses up its retry budget ends in an error that
\* differs from the error of every failure of another kind.
C3_DepletionDistinct ==
  \A p, q \in Procs :
    (Depleted(p) /\ pc[q] = "failed" /\ ~Depleted(q)) => err[q] # err[p]

TwoConceptsNoConnection == Cardinality(concepts) = 2 /\ connections = {}

IsThePair(p) == pair[p].kind = "pair" /\ {pair[p].a, pair[p].b} = concepts

\* C4 as stated: with exactly two concepts and no stored Connection, every
\* sampler call whose queries succeed returns the pair of the two concepts.
C4_AlwaysThePair ==
  \A p \in Procs :
    (TwoConceptsNoConnection /\ SamplerEnded(p) /\ ~DatastoreFailed(p)) => IsThePair(p)

\* C4 amended: with exactly two concepts and no stored Connection, a sampler
\* call whose queries succeed returns the pair of the two concepts, in either
\* order, or returns null on its first attempt because conceptB collided with
\* conceptA at the first draw and at all MaxRedraw redraws.
C4_ThePairOrCollision ==
  /\ \A p \in Procs :
       (TwoConceptsNoConnection /\ SamplerEnded(p) /\ ~DatastoreFailed(p)) =>
         \/ IsThePair(p)
         \/ /\ Collided(p)
            /\ err[p] = ErrNoPair
            /\ maxAttempts[p] = MaxAttempts
  /\ \A a \in concepts, b0 \in concepts :
       \A out \in LoopOutcomes(a, b0, 0, concepts) :
         out.b = a => out.attempts = MaxRedraw

\* One call returned the pair and another one null, nothing being stored.
C4_Witness ==
  /\ TwoConceptsNoConnection
  /\ \E p, q \in Procs : IsThePair(p) /\ Collided(q)

\* Number of increment_concept_usage calls on c that succeeded.
SuccessfulIncrements(c) ==
  Cardinality({ x \in Procs \X (1..2) :
                  x[2] \in DOMAIN incLog[x[1]] /\ incLog[x[1]][x[2]] = c })

\* C5: after K successful increments of a concept, by whichever cycles and in
\* whichever interleaving, its usage_count is exactly K above its start (0).
C5_NoLostUpdate ==
  \A c \in ConceptIds : usage[c] = SuccessfulIncrements(c)

\* Two cycles have incremented the same concept.
C5_Witness ==
  \E c \in ConceptIds : SuccessfulIncrements(c) = 2 /\ \A p \in Procs : incLog[p] # <<>>

C6_Step ==
  /\ \A p \in Procs : (pc[p] \in SamplerPcs /\ pc'[p] # pc[p]) => usage' = usage
  /\ usage' # usage =>
       \E p \in Procs, c \in ConceptIds :
         /\ \E r \in connections : r.id = p
         /\ incLog'[p] = Append(incLog[p], c)
         /\ usage' = [usage EXCEPT ![c] = @ + 1]

C6_State ==
  \A p \in Procs :
    /\ pc[p] \in SamplerPcs \cup {"generate", "store", "score", "storeEvals", "incA"}
         => incLog[p] = <<>>
    /\ pc[p] = "incB" => incLog[p] = <<pair[p].a>>
    /\ pc[p] = "success" => incLog[p] = <<pair[p].a, pair[p].b>> /\ pair[p].a # pair[p].b
    /\ Len(incLog[p]) <= 2
    /\ incLog[p] # <<>> => \E r \in connections : r.id = p

C7_UsageNeverDecreases == [][\A c \in ConceptIds : usage'[c] >= usage[c]]_vars

\* A usage_count has been raised twice.
C7_Witness == \E c \in ConceptIds : usage[c] = 2

\* Messages of the authentication and of the not-found category.
NonRetryableCategory == {MsgNotFound, MsgAuthentication, MsgOAuth}

\* C8: once an invocation fails with an error of a non-retryable category,
\* the operation is not invoked again, no delay is waited for it, and that
\* error is the one raised (one invocation and no delay when it is the first).
C8_FailFast ==
  \A i \in DOMAIN rLog :
    (~rLog[i].ok /\ rLog[i].msg \in NonRetryableCategory) =>
      /\ Len(rLog) = i
      /\ Len(rDelays) = i - 1
      /\ rpc = "thrown"
      /\ rLastError = rLog[i].msg

\* The first invocation failed fast although more attempts were allowed.
C8_Witness ==
  /\ rMax = 3
  /\ rpc = "thrown"
  /\ rLog = <<Failure(MsgNotFound)>>
  /\ rDelays = <<>>

AllRetryableFailures ==
  \A i \in DOMAIN rLog : ~rLog[i].ok /\ rLog[i].msg \notin NonRetryableCategory

\* C9: when every invocation fails with a retryable error and maxRetries >= 1,
\* there are exactly maxRetries invocations, maxRetries - 1 delays, the delay
\* after invocation i (from 0) being initialDelay * 2^i, none after the last
\* one, and the error raised is the last invocation's.
C9_ExhaustsAttempts ==
  (rpc # "idle" /\ rMax >= 1 /\ AllRetryableFailures) =>
    /\ Len(rLog) <= rMax
    /\ (rpc = "thrown") = (Len(rLog) = rMax)
    /\ rpc # "returned"
    /\ rpc = "thrown" =>
         /\ rDelays = [i \in 1..(rMax - 1) |-> rInit * 2^(i - 1)]
         /\ rLastError = rLog[rMax].msg

\* Three retryable failures, the last with another error than the first.
C9_Witness ==
  /\ rMax = 3
  /\ rpc = "thrown"
  /\ Len(rLog) = 3
  /\ AllRetryableFailures
  /\ rLog[1].msg # rLog[3].msg
  /\ Len(rDelays) = 2

\* C10: when invocation k+1 succeeds after k retryable failures, that
\* invocation's value is returned after exactly k+1 invocations and k delays,
\* and the operation is not invoked again.
C10_ReturnsFirstSuccess ==
  \A i \in DOMAIN rLog :
    rLog[i].ok =>
      /\ Len(rLog) = i
      /\ i <= rMax
      /\ Len(rDelays) = i - 1
      /\ rpc = "returned"
      /\ rResult = rLog[i].value
      /\ \A j \in 1..(i - 1) : ~rLog[j].ok /\ rLog[j].msg \notin NonRetryableCategory

\* The second invocation succeeded after one retryable failure (Test 4).
C10_Witness ==
  /\ rpc = "returned"
  /\ rMax = 3
  /\ Len(rLog) = 2
  /\ rResult = 2

\* C11: a client call made by generateConnection or by a critic pass that
\* ends in a timeout or another non-auth transport failure has invoked the
\* client ClientMaxRetries times before the failure is surfaced or defaulted.
C11_TransportFailureRetried ==
  \A c \in Calls :
    stimulus[c] \in TransportStimuli => invocations[c] = ClientMaxRetries

AuthErrors == {Lit(ErrCodexAuth), Lit(ErrClaudeAuth)}

\* The error the configured client surfaces when execAsync ends as stim.
SurfacedFor(stim) == CallCLI(useClaude, hasApiKey, stim, Prose).error

\* C12: when the CLI invocation fails for an authentication reason, the error
\* of the response is the client's authentication error, and it differs from
\* the errors the client surfaces for a missing binary and for a timeout.
C12_AuthenticationDistinct ==
  \A c \in Calls :
    stimulus[c] \in AuthStimuli =>
      /\ responses[c].error \in AuthErrors
      /\ responses[c].error # SurfacedFor("missing")
      /\ responses[c].error # SurfacedFor("timeout")

\* C13: generateConnection ends with the content-validation error only after
\* a second whole generation (client call and extraction) was also invalid.
C13_InvalidContentRegenerated ==
  thrown = ErrInvalidFormat => invocations["generate"] = 2

\* The Connection rows cycle p inserted.
InsertedBy(p) == {r \in connections : r.id = p}

\* storeConnection has returned to cycle p: the generation step succeeded.
GenerateReturned(p) ==
  \/ pc[p] \in {"score", "storeEvals", "incA", "incB", "success"}
  \/ pc[p] = "failed" /\ err[p] \in {ErrStoreEvals, ErrIncA, ErrIncB}

\* C14: a cycle whose generation step succeeded has inserted exactly one
\* Connection row, with status unrated; a cycle that has not come that far, or
\* that failed in sampling or in generation, has inserted none.
C14_OneRowPerGeneration ==
  \A p \in Procs :
    IF GenerateReturned(p)
      THEN \E r \in connections : InsertedBy(p) = {r} /\ r.status = "unrated"
      ELSE InsertedBy(p) = {}

C14_Witness ==
  \E p, q \in Procs :
    /\ GenerateReturned(p)
    /\ Cardinality(InsertedBy(p)) = 1
    /\ pc[q] = "failed"
    /\ err[q] \in {ErrGenerate, ErrInvalidFormat}
    /\ InsertedBy(q) = {}

\* typeof v === 'number' and 1 <= v <= 10
InRange(v) == v.t = "number" /\ v.n >= 1 /\ (v.n < 10 \/ (v.n = 10 /\ ~v.half))

\* C15: for the data a critic response yielded, the score of the pass is
\* {5,5,5} when novelty, coherence or usefulness is not a number or lies
\* outside [1,10], and is the three received values otherwise.
C15_ScoresValidated ==
  \A run \in {1, 2} :
    (received.call = CallOf(run) /\ responses[CallOf(run)].success) =>
      IF /\ InRange(received.obj.novelty)
         /\ InRange(received.obj.coherence)
         /\ InRange(received.obj.usefulness)
        THEN scores[run] = Scores(received.obj.novelty, received.obj.coherence,
                                  received.obj.usefulness)
        ELSE scores[run] = Scores(Num(5), Num(5), Num(5))

C15_Witness ==
  /\ received = [call |-> "run1",
                 obj |-> JsonObject(Missing, Missing, Num(11), Num(5), Num(5))]
  /\ responses["run1"].success
  /\ scores[1] = Scores(Num(5), Num(5), Num(5))
  /\ scores[2] = Scores(Num(10), Num(1), Num(5))

\* The client call of the critic pass ended in failure.
PassFailed(run) == invocations[CallOf(run)] > 0 /\ ~responses[CallOf(run)].success

PassStarts == \E c \in {"run1", "run2"} : invocations'[c] # invocations[c]

EvaluationsOf(id) == {e \in evaluations : e.conn = id}
RunsOf(id) == {e.run : e \in EvaluationsOf(id)}

\* C18: each Connection has no CriticEvaluation row or exactly two, one of
\* run 1 and one of run 2; a cycle that reports success has both.
C18_EvaluationPairs ==
  /\ \A r \in connections :
       \/ EvaluationsOf(r.id) = {}
       \/ Cardinality(EvaluationsOf(r.id)) = 2 /\ RunsOf(r.id) = {1, 2}
  /\ \A p \in Procs :
       pc[p] = "success" =>
         /\ InsertedBy(p) # {}
         /\ Cardinality(EvaluationsOf(p)) = 2
         /\ RunsOf(p) = {1, 2}

C18_Witness ==
  \E p, q \in Procs :
    /\ pc[p] = "success"
    /\ RunsOf(p) = {1, 2}
    /\ InsertedBy(q) # {}
    /\ EvaluationsOf(q) = {}

\* C19: the pool-size check reports the count of unrated Connections (0 when
\* the count request gave none) and maps a count below 50 to fail, a count
\* from 50 to 99 to warn and a count of 100 or more to pass.
C19_PoolSizeStatus ==
  LET result == checks[PoolSizeCheck]
      n == result.value.num
  IN  result # NotRun =>
        /\ result.value \in {Ratio(unratedRows, 1), Ratio(0, 1)}
        /\ n < 50 => result.status = "fail"
        /\ (50 <= n /\ n < 100) => result.status = "warn"
        /\ n >= 100 => result.status = "pass"

C19_Witness ==
  /\ unratedRows = 50
  /\ checks[PoolSizeCheck] = CheckResult("warn", Ratio(50, 1))

\* C20: the utilization check reports total_connections / (n(n-1)/2) (0
\* when a count is missing or zero) and maps a rate above 0.8 to fail, a
\* rate above 0.6 and up to 0.8 to warn and a rate up to 0.6 to pass.
C20_UtilizationStatus ==
  LET result == checks[UtilizationCheck]
      u == result.value
      pairs == (totalConcepts * (totalConcepts - 1)) \div 2
  IN  result # NotRun =>
        /\ \/ u = Ratio(0, 1)
           \/ pairs > 0 /\ u = Ratio(totalConnections, pairs)
        /\ 5 * u.num > 4 * u.den => result.status = "fail"
        /\ (5 * u.num > 3 * u.den /\ 5 * u.num <= 4 * u.den) => result.status = "warn"
        /\ 5 * u.num <= 3 * u.den => result.status = "pass"

C20_Witness ==
  /\ totalConcepts = 5
  /\ totalConnections = 6
  /\ checks[UtilizationCheck] = CheckResult("pass", Ratio(6, 10))


\* C21: the staleness check fails when the newest connection is more than
\* 48 hours old, warns when it is more than 24 and at most 48 hours old, and
\* passes when it is at most 24 hours old.
C21_StalenessStatus ==
  (results[LastGenerationCheck] \in Levels /\ lastGenAge.known) =>
    LET ms == lastGenAge.hours.num
        level == results[LastGenerationCheck]
    IN  /\ lastGenAge.hours.den = MsPerHour
        /\ ms > 48 * MsPerHour => level = "fail"
        /\ (ms > 24 * MsPerHour /\ ms <= 48 * MsPerHour) => level = "warn"
        /\ ms <= 24 * MsPerHour => level = "pass"

\* The newest connection is exactly 48 hours old and the check warns.
C21_Witness ==
  /\ lastGenAge.known
  /\ lastGenAge.hours.num = 48 * MsPerHour
  /\ results[LastGenerationCheck] = "warn"

\* The mean of (novelty + coherence + usefulness) / 3 over the stored
\* evaluations is total / (3 * n).
MeanAbove(data, k) == data.novelty + data.coherence + data.usefulness > k * 3 * data.n
MeanBelow(data, k) == data.novelty + data.coherence + data.usefulness < k * 3 * data.n

\* C22: over any stored evaluations the score check warns when their mean
\* is above 8 or below 4, passes when it is between 4 and 8, and never fails.
C22_DriftStatus ==
  /\ criticStatus # "fail"
  /\ (criticStatus # "none" /\ ~criticFailed /\ criticData.n > 0) =>
       criticStatus = IF MeanAbove(criticData, 8) \/ MeanBelow(criticData, 4)
                        THEN "warn" ELSE "pass"

\* C23: the status of the HealthCheckResult is the worst level among the
\* five checks: critical with a failure, else warning with a warning, else
\* healthy.
C23_AggregateIsWorst ==
  aggregate # "none" =>
    LET failures == {c \in MonitorChecks : results[c] = "fail"}
        warnings == {c \in MonitorChecks : results[c] = "warn"}
    IN  /\ failures # {} => aggregate = "critical"
        /\ (failures = {} /\ warnings # {}) => aggregate = "warning"
        /\ (failures = {} /\ warnings = {}) => aggregate = "healthy"

\* A failure and a warning together give critical.
C23_Witness ==
  /\ aggregate = "critical"
  /\ \E c \in MonitorChecks : results[c] = "warn"
  /\ \E c \in MonitorChecks : results[c] = "pass"

\* C24: the process exits with 0 exactly on a healthy result, with 2
\* exactly on a warning and with 1 exactly on a critical one.
C24_ExitCodes ==
  mpc = "exited" =>
    /\ exitCode = 0 <=> aggregate = "healthy"
    /\ exitCode = 2 <=> aggregate = "warning"
    /\ exitCode = 1 <=> aggregate = "critical"

\* The monitor has exited with 2 on a warning.
C24_Witness == mpc = "exited" /\ exitCode = 2 /\ aggregate = "warning"

\* C25: the webhook is posted to only for a result that is not healthy, and
\* neither its answer, nor its failure, nor a missing URL changes the
\* result or the exit code that follows from it.
C25_NotificationBestEffort ==
  [][/\ notification' # "none" => aggregate' \in {"warning", "critical"}
     /\ aggregate # "none" => (aggregate' = aggregate /\ results' = results)
     /\ mpc' = "exited" =>
          exitCode' = CASE aggregate' = "healthy" -> 0
                        [] aggregate' = "warning" -> 2
                        [] aggregate' = "critical" -> 1]_vars

\* The request to the webhook threw and the monitor exited with 1 on its
\* critical result.
C25_Witness ==
  /\ mpc = "exited"
  /\ notification = "threw"
  /\ aggregate = "critical"
  /\ exitCode = 1

\* C26: runHealthChecks returns although a round trip is never answered:
\* while main waits for the checks a step remains possible (no run of the
\* monitor visits a state twice, so this is termination under fairness).
C26_RunHealthChecksReturns == mpc = "checks" => ENABLED NextMonitor

\* Number of cycles of the batch that ended with the given outcome.
CyclesWith(ok) == Cardinality({k \in 1..Len(cycleLog) : cycleLog[k] = ok})

\* C27: every one of the COUNT cycles of a batch is started whatever the
\* earlier cycles did, each is counted once as a success or as a failure,
\* and the delay is applied COUNT - 1 times.
C27_BatchRunsEveryCycle ==
  /\ successCount = CyclesWith(TRUE)
  /\ failureCount = CyclesWith(FALSE)
  /\ bpc \in {"summary", "exited"} =>
       /\ Len(cycleLog) = batchCount
       /\ successCount + failureCount = batchCount
       /\ delays = batchCount - 1

\* A batch of three cycles whose first cycle failed has run all three.
C27_Witness ==
  /\ bpc = "exited"
  /\ batchCount = 3
  /\ cycleLog = <<FALSE, TRUE, TRUE>>
  /\ delays = 2

\* C28: the batch exits with 1 exactly when fewer than half of its cycles
\* succeeded and with 0 otherwise, with a warning from 50% up to below 90%
\* and without one from 90%.
C28_BatchExitCode ==
  bpc = "exited" =>
    /\ batchExit = 1 <=> 100 * successCount < 50 * batchCount
    /\ batchExit = 0 <=> 100 * successCount >= 50 * batchCount
    /\ summaryLevel = "warn" <=> (100 * successCount >= 50 * batchCount
                                  /\ 100 * successCount < 90 * batchCount)
    /\ summaryLevel = "info" <=> 100 * successCount >= 90 * batchCount

\* One of two cycles succeeded: the batch exits with 0 and a warning.
C28_Witness ==
  /\ bpc = "exited"
  /\ batchCount = 2
  /\ successCount = 1
  /\ summaryLevel = "warn"
  /\ batchExit = 0

\* C29: getUnusedConceptPairs ends within its retry budget with at most
\* count pairs, and with fewer than count pairs it returns those it found
\* instead of raising an error.
C29_SamplePairsReturns ==
  /\ bulkRetries <= DefaultMaxRetries
  /\ Len(bulkPairs) <= bulkCount
  /\ bulkPc # "raised"
  /\ bulkPc = "loop" => (ENABLED BulkIteration \/ ENABLED BulkReturn)

\* The fenced blocks of a text: a ```json, the next ``` after it, and what
\* stands between them.
FencedBlocks(text) ==
  {b \in Positions(text, {"fence"}) \X Positions(text, {"ticks"}) :
     /\ b[1] < b[2]
     /\ \A k \in (b[1] + 1)..(b[2] - 1) : text[k] \notin {"fence", "ticks"}}
BlockContent(text, b) == ParseJSON(SubSeq(text, b[1] + 1, b[2] - 1))

\* C30 as stated: for a text that contains a fenced json block with valid
\* content, extractJSON returns the parsed content of such a block,
\* whatever surrounds it.
C30_FencedBlockWins ==
  extractDone =>
    LET valid == {b \in FencedBlocks(responseText) :
                    BlockContent(responseText, b).st = "value"}
    IN  valid # {} => \E b \in valid : extracted = BlockContent(responseText, b)

\* C30 amended: for a text whose first fenced json block has valid content,
\* extractJSON returns exactly the parsed content of that block, whatever
\* surrounds it.
C30_FirstFencedBlockWins ==
  extractDone =>
    \A b \in FencedBlocks(responseText) :
      ((\A c \in FencedBlocks(responseText) : b[1] <= c[1])
       /\ BlockContent(responseText, b).st = "value")
        => extracted = BlockContent(responseText, b)

\* 'Here you go:', the fenced object with connection and explanation, then
\* 'Enjoy!' gives that object.
C30_Witness ==
  /\ extractDone
  /\ responseText = ProseSegment \o FencedSegment(ObjectSegment("A")) \o ProseSegment
  /\ extracted = ParsedValue(ObjectSegment("A"))

\* C31: extractJSON is total and returns no partial data: for a text that
\* is itself valid JSON and has no fence it returns the value JSON.parse
\* gives for the text, and for a text in which no strategy parses a value
\* it returns null.
C31_WholeValueOrNull ==
  extractDone =>
    /\ (/\ Positions(responseText, {"fence", "ticks"}) = {}
        /\ ParseJSON(responseText).st = "value")
         => extracted = ParseJSON(responseText)
    /\ (\A name \in {"fence", "brace", "whole"} :
          Strategies(responseText)[name].st # "value")
         => extracted = NullJson

\* The object and array literals of a text: the spans that open with a
\* bracket and are valid JSON.
Literals(text) ==
  {l \in Positions(text, {"{", "["}) \X Positions(text, {"}", "]"}) :
     l[1] < l[2] /\ ParseJSON(SubSeq(text, l[1], l[2])).st = "value"}
FirstLiteral(text) ==
  CHOOSE l \in Literals(text) : \A m \in Literals(text) : l[1] <= m[1]

\* C35: for a text without a fenced block of valid content, extractJSON
\* returns the first object or array literal found in the text, also when
\* further text with another literal follows it.
C35_FirstLiteralWins ==
  extractDone =>
    ((/\ \A b \in FencedBlocks(responseText) :
            BlockContent(responseText, b).st # "value"
      /\ Literals(responseText) # {})
       => LET l == FirstLiteral(responseText)
          IN  extracted = ParseJSON(SubSeq(responseText, l[1], l[2])))

\* The template with the placeholders of CONCEPT_A and CONCEPT_B replaced
\* by the names a and b as they are written.
RECURSIVE Substituted(_, _, _)
Substituted(text, a, b) ==
  IF text = <<>> THEN <<>>
  ELSE IF MatchesAt(text, 1, Placeholder("CONCEPT_A"))
    THEN a \o Substituted(SubSeq(text, 6, Len(text)), a, b)
  ELSE IF MatchesAt(text, 1, Placeholder("CONCEPT_B"))
    THEN b \o Substituted(SubSeq(text, 6, Len(text)), a, b)
  ELSE <<Head(text)>> \o Substituted(Tail(text), a, b)

\* C32: getGeneratorPrompt(a, b) is the template with every {{CONCEPT_A}}
\* replaced by a and every {{CONCEPT_B}} by b: it contains both names and
\* neither '{{' nor '}}', for every pair of concept names.
C32_PlaceholdersReplaced ==
  promptDone =>
    /\ prompt = Substituted(GeneratorTemplate, conceptNameA, conceptNameB)
    /\ Includes(prompt, conceptNameA)
    /\ Includes(prompt, conceptNameB)
    /\ ~Includes(prompt, <<"{", "{">>)
    /\ ~Includes(prompt, <<"}", "}">>)

\* C33: a pair is returned only when the duplicate check found no
\* Connection of either ordering; a check that finds one leads to a retry
\* from scratch, not to an error, and the retry takes exactly one unit of
\* the budget, so that a call makes at most maxAttempts duplicate checks.
C33_DuplicateRetried ==
  /\ [](\A p \in Procs :
          pc[p] = "check" =>
            /\ maxAttempts[p] \in 1..MaxAttempts
            /\ ExistingConnections(cA[p], cB[p]) # {} => ENABLED SamplerDuplicate(p))
  /\ [][\A p \in Procs :
          /\ (pc[p] = "check" /\ pair'[p] # pair[p])
               => /\ pair'[p] = ConceptPair(cA[p], cB[p])
                  /\ ExistingConnections(cA[p], cB[p]) = {}
          /\ (pc[p] = "check" /\ pc'[p] = "fetch")
               => /\ ExistingConnections(cA[p], cB[p]) # {}
                  /\ maxAttempts'[p] = maxAttempts[p] - 1
                  /\ cA'[p] = 0 /\ cB'[p] = 0
                  /\ err'[p] = ErrNone]_vars

\* C34: both concepts of a sampled pair are among the FetchLimit least-used
\* concepts at the time of the fetch: fewer than FetchLimit concepts of the
\* pool have a usage_count strictly below that of either.
C34_SampledAmongLeastUsed ==
  fetchPc \in {"check", "null"} =>
    /\ LowerCount(poolLevels, sampledA.level) < FetchLimit
    /\ LowerCount(poolLevels, sampledB.level) < FetchLimit

\* 49 unused concepts, one used once and 51 used twice: the concept used
\* once is fetched and drawn together with an unused one.
C34_Witness ==
  /\ fetchPc = "check"
  /\ poolLevels[0] = FetchLimit - 1
  /\ poolLevels[1] = 1
  /\ poolLevels[2] = FetchLimit + 1
  /\ sampledA.level = 1
  /\ sampledB.level = 0

\* No cycle is in flight.
NoCycleInFlight == \A p \in Procs : pc[p] \in {"success", "failed"}

ConnectionsOf(c) == {r \in connections : r.a = c \/ r.b = c}

\* C37: in a run that starts with every usage_count 0 and no Connection,
\* whenever no cycle is in flight the usage_count of each concept is the
\* number of stored Connections that refer to it.
C37_UsageCountsConnections ==
  (NoCycleInFlight /\ SeedRow \notin connections) =>
    \A c \in ConceptIds : usage[c] = Cardinality(ConnectionsOf(c))

\* C38: the statistics getPoolStatistics returns have a utilization rate
\* between 0 and 1 (the connections are at most n(n-1)/2 for n concepts),
\* a rate of 0 when fewer than 2 concepts exist, and unrated and rated
\* counts that add up to the total.
C38_StatisticsConsistent ==
  stats # NoStats =>
    /\ 0 <= stats.utilizationRate.num
    /\ stats.utilizationRate.num <= stats.utilizationRate.den
    /\ totalConnections <= (totalConcepts * (totalConcepts - 1)) \div 2
    /\ totalConcepts < 2 => stats.utilizationRate.num = 0
    /\ stats.unratedConnections + stats.ratedConnections = stats.totalConnections

\* C39: the pairs of one getUnusedConceptPairs result differ pairwise as
\* unordered pairs.
C39_BulkPairsDistinct ==
  \A i, j \in 1..Len(bulkPairs) :
    i # j => {bulkPairs[i].a, bulkPairs[i].b} # {bulkPairs[j].a, bulkPairs[j].b}

\* C40: once callCodexCLI has returned, with success or with any failure,
\* the temporary prompt file it created does not exist.
C40_TempFileRemoved == codexPc = "returned" => tempFile # "exists"

=============================================================================
